---- MODULE Spec2Model ----
(***************************************************************************)
(* A model of sqlmesh's SnapshotEvaluator (core/snapshot/evaluator.py)     *)
(* driving an engine adapter: the per-snapshot DDL fan-outs (promote,      *)
(* demote, create, migrate, cleanup) run by a bounded worker pool inside   *)
(* concurrent_context, the recycle / close resource release, and the      *)
(* write strategy of evaluate.                                             *)
(***************************************************************************)
EXTENDS Integers, Sequences, FiniteSets, TLC

\* ------------------------------------------------------------------ bounds

\* Largest ddl_concurrent_tasks the evaluator is constructed with.
MaxTasks == 2

\* Largest number of adapter calls that raise during one evaluator call.
MaxFaults == 1

\* Largest number of batches a procedural model produces in one evaluate.
MaxBatches == 2

\* The limit of a preview (evaluate is called with limit 0 or with this).
MaxLimit == 1

\* The days start and end are drawn from.
MaxDay == 2

\* ------------------------------------------------------- snapshots (inputs)

\* All snapshots by id.  S1 is a new version (version = fingerprint); S2 is
\* a later fingerprint of the same model that reuses S1's version (and adds
\* a column); S3 is a view-kind child of S1; S4 is embedded; S5 is a later
\* fingerprint of S3's model that reuses its version and reads S2.
SnapshotIds == {"S1", "S2", "S3", "S4", "S5"}

\* The snapshots the callers of promote, demote and cleanup, and of the
\* create and migrate that go with them, pass as target snapshots.
Collection == {"S1", "S2", "S3"}

Snap(id) ==
    CASE id = "S1" -> [name |-> "a", version |-> 1, fingerprint |-> 1,
                       kind |-> "FULL", parents |-> {},
                       columns |-> << <<"x", "int">> >>]
      [] id = "S2" -> [name |-> "a", version |-> 1, fingerprint |-> 2,
                       kind |-> "FULL", parents |-> {},
                       columns |-> << <<"x", "int">>, <<"y", "text">> >>]
      [] id = "S3" -> [name |-> "b", version |-> 3, fingerprint |-> 3,
                       kind |-> "VIEW", parents |-> {"S1"},
                       columns |-> << <<"x", "int">> >>]
      [] id = "S4" -> [name |-> "c", version |-> 4, fingerprint |-> 4,
                       kind |-> "EMBEDDED", parents |-> {},
                       columns |-> << <<"x", "int">> >>]
      [] id = "S5" -> [name |-> "b", version |-> 3, fingerprint |-> 5,
                       kind |-> "VIEW", parents |-> {"S2"},
                       columns |-> << <<"x", "int">> >>]

Environment == "prod"

Kinds ==
    {"EMBEDDED", "VIEW", "FULL", "INCREMENTAL_BY_TIME_RANGE",
     "INCREMENTAL_BY_UNIQUE_KEY"}

\* The models evaluate is called on: one model "e" of any kind, declarative
\* (is_sql) or procedural, with or without statements that precede its query.
\* Its snapshot reuses version 1 under fingerprint 2.
Statements == {<<>>, <<"SET">>, <<"CREATE TABLE">>}

EvalSnapshots ==
    [name : {"e"}, version : {1}, fingerprint : {2}, kind : Kinds,
     parents : {{}}, columns : {<< <<"x", "int">> >>},
     is_sql : BOOLEAN, sql_statements : Statements, time_column : {"ds"}]

Days == 1..MaxDay

\* ------------------------------------------------- snapshot identity model

is_new_version(s) == s.fingerprint = s.version

is_dev_table(s, is_dev) == is_dev /\ ~is_new_version(s)

\* The permanent name is a function of (name, version), the dev/temporary
\* name a function of (name, fingerprint).
table_name(s, is_dev) ==
    IF is_dev_table(s, is_dev)
    THEN <<"temp", s.name, s.fingerprint>>
    ELSE <<"perm", s.name, s.version>>

for_environment(s, environment) == <<environment, s.name, 0>>

schema_for_environment(s, environment) == <<"schema", environment, 0>>

physical_schema(s) == <<"schema", "physical", 0>>

is_embedded_kind(s) == s.kind = "EMBEDDED"

is_view_kind(s) == s.kind = "VIEW"

is_full_kind(s) == s.kind = "FULL"

is_incremental_by_time_range_kind(s) == s.kind = "INCREMENTAL_BY_TIME_RANGE"

is_materialized(s) == ~(is_view_kind(s) \/ is_embedded_kind(s))

\* ------------------------------------------------------------ the adapter

\* The table a "CREATE TABLE" statement of a model creates.
ScratchName == <<"scratch", "e", 0>>

EvalNames == {<<"perm", "e", 1>>, <<"temp", "e", 2>>, ScratchName}

PhysNames ==
    {table_name(Snap(i), d) : i \in SnapshotIds, d \in BOOLEAN}
        \cup {for_environment(Snap(i), Environment) : i \in SnapshotIds}
        \cup EvalNames

NoDef == <<"", "", 0>>

Absent == [kind |-> "none", def |-> NoDef, cols |-> <<>>]

TableOf(cols) == [kind |-> "table", def |-> NoDef, cols |-> cols]

ViewOf(def) == [kind |-> "view", def |-> def, cols |-> <<>>]

\* exp.select("*").from_(table_name)
select_star_from(tn) == tn

\* model.render_query(...): the rendered query of a model
render_query(s) == <<"query", s.name, s.fingerprint>>

VARIABLES
    ddl_concurrent_tasks,   \* SnapshotEvaluator.ddl_concurrent_tasks
    objects,                \* adapter: physical name -> what exists there
    call,                   \* the caller's current evaluator call
    tasks,                  \* fan-out: snapshot id -> its task
    log,                    \* adapter calls issued by the current call, in order
    outcome,                \* what the caller observes when the call ends
    supports_partitions,    \* adapter.supports_partitions
    rows,                   \* adapter: table name -> the rows it holds
    snapshot,               \* the snapshot evaluate or audit is called on
    ev,                     \* the frame of the running evaluate
    au,                     \* the frame of the running audit
    ld                      \* the frame of the running Audit.load_multiple

vars == <<ddl_concurrent_tasks, objects, call, tasks, log, outcome,
          supports_partitions, rows, snapshot, ev, au, ld>>

evalVars == <<supports_partitions, rows, snapshot, ev>>

auditVars == <<au, ld>>

table_exists(tn) == objects[tn].kind # "none"

\* ------------------------------------------------------------------- tasks

NoTask == [pc |-> "none", names |-> <<>>, exists |-> FALSE,
           cols |-> <<>>, deltas |-> <<>>, mapping |-> {}]

PendingTask == [NoTask EXCEPT !.pc = "pending"]

Idle == [op |-> "idle", phase |-> "idle", targets |-> {}, is_dev |-> FALSE,
         faults |-> 0, error |-> "", first |-> {}]

NoEval == [pc |-> "none", start |-> 0, end |-> 0, limit |-> 0,
           is_dev |-> FALSE, batches |-> 0, index |-> 0, stmts |-> <<>>]

NoAudit == [pc |-> "none", is_dev |-> FALSE, raise_exception |-> FALSE,
            audits |-> <<>>, results |-> <<>>, error |-> <<"", 0>>]

NoLoad == [pc |-> "none", expressions |-> <<>>, path |-> "", dialect |-> "",
           rest |-> <<>>, audit_block |-> <<>>, yielded |-> <<>>,
           error |-> <<"", "", "">>]

Active(id) == tasks[id].pc \notin {"none", "pending", "done", "failed"}

ActiveIds == {id \in SnapshotIds : Active(id)}

Init ==
    /\ ddl_concurrent_tasks \in 1..MaxTasks
    /\ objects = [n \in PhysNames |-> Absent]
    /\ call = Idle
    /\ tasks = [id \in SnapshotIds |-> NoTask]
    /\ log = <<>>
    /\ outcome = ""
    /\ supports_partitions = FALSE
    /\ rows = [n \in EvalNames |-> {}]
    /\ snapshot = Snap("S1")
    /\ ev = NoEval
    /\ au = NoAudit
    /\ ld = NoLoad

\* ------------------------------------------------- adapter calls (effects)

\* CREATE OR REPLACE VIEW
create_view(obj, def) == ViewOf(def)

\* DROP VIEW IF EXISTS: fails on an object that is a table
drop_view_raises(obj) == obj.kind = "table"

drop_view(obj) == Absent

\* DROP TABLE IF EXISTS: fails on an object that is a view
drop_table_raises(obj) == obj.kind = "view"

drop_table(obj) == Absent

\* CREATE TABLE IF NOT EXISTS
create_table(obj, cols) == IF obj.kind = "none" THEN TableOf(cols) ELSE obj

\* adapter.columns(table): fails when nothing exists under the name
columns_raises(obj) == obj.kind = "none"

ColumnNames(cols) == {cols[i][1] : i \in DOMAIN cols}

\* ALTER TABLE ... ADD COLUMN / DROP COLUMN: fails on anything but a table
alter_table_raises(obj) == obj.kind # "table"

alter_table(obj, added_columns, dropped_columns) ==
    LET Kept(c) == c[1] \notin ColumnNames(dropped_columns)
    IN  [obj EXCEPT !.cols = SelectSeq(@, Kept) \o added_columns]

\* SchemaDiffCalculator.calculate(target, source): the columns of the source
\* missing from the target are added, in the source's order; the columns of
\* the target missing from the source are dropped.
calculate(target_cols, source_cols) ==
    LET Missing(c) == c[1] \notin ColumnNames(target_cols)
        Extra(c) == c[1] \notin ColumnNames(source_cols)
        adds == SelectSeq(source_cols, Missing)
        drops == SelectSeq(target_cols, Extra)
    IN  [i \in 1..Len(adds) |-> <<"ADD", adds[i][1], adds[i][2]>>]
            \o [i \in 1..Len(drops) |-> <<"DROP", drops[i][1], drops[i][2]>>]

\* ------------------------------------------------------- the fan-out harness

\* cleanup without reverse_order=True
reverse_order_default(op) == FALSE

\* cleanup passes reverse_order=True, the other fan-outs leave the default
reverse_order(op) == op = "cleanup"

\* The snapshots of the collection that must be finished before id starts:
\* its parents, or with reverse_order its children.
Deps(id, targets, reverse) ==
    IF reverse
    THEN {c \in targets : id \in Snap(c).parents}
    ELSE Snap(id).parents \cap targets

\* An adapter call as the log keeps it: <<call, object, snapshot, result>>
Logged(c, n, id, res) == Append(log, <<c, n, id, res>>)

Finish(id) == [tasks EXCEPT ![id].pc = "done"]

RaiseIn(id, err) ==
    /\ tasks' = [tasks EXCEPT ![id].pc = "failed"]
    /\ call' = [call EXCEPT !.error = IF call.error = "" THEN err ELSE call.error]

\* with self.concurrent_context(): concurrent_apply_to_snapshots(...)
Begin(op, targets, is_dev, faults) ==
    /\ call.phase = "idle"
    /\ call' = [op |-> op, phase |-> "fanout", targets |-> targets,
                is_dev |-> is_dev, faults |-> faults, error |-> "",
                first |-> {}]
    /\ tasks' = [id \in SnapshotIds |->
                    IF id \in targets THEN PendingTask ELSE NoTask]
    /\ log' = <<>>
    /\ outcome' = ""
    /\ UNCHANGED <<ddl_concurrent_tasks, objects, evalVars, auditVars>>

promote ==
    \E targets \in SUBSET Collection, is_dev \in BOOLEAN, f \in 0..MaxFaults :
        Begin("promote", targets, is_dev, f)

demote ==
    \E targets \in SUBSET Collection, f \in 0..MaxFaults :
        Begin("demote", targets, FALSE, f)

create ==
    \E targets \in SUBSET Collection, f \in 0..MaxFaults :
        Begin("create", targets, FALSE, f)

migrate ==
    \E targets \in SUBSET Collection, f \in 0..MaxFaults :
        Begin("migrate", targets, FALSE, f)

\* The caller makes the call that has just returned normally once more, with
\* the same snapshots; call.first keeps the adapter calls the first call made.
Again(op) ==
    \E f \in 0..MaxFaults :
        /\ call.phase = "done"
        /\ call.op = op
        /\ outcome = "ok"
        /\ call.first = {}
        /\ call' = [call EXCEPT !.phase = "fanout", !.faults = f,
                                !.first = {log[i] : i \in DOMAIN log}]
        /\ tasks' = [id \in SnapshotIds |->
                        IF id \in call.targets THEN PendingTask ELSE NoTask]
        /\ log' = <<>>
        /\ outcome' = ""
        /\ UNCHANGED <<ddl_concurrent_tasks, objects, evalVars, auditVars>>

demote_again == Again("demote")

cleanup ==
    \E targets \in SUBSET Collection, f \in 0..MaxFaults :
        Begin("cleanup", targets, FALSE, f)

\* the dev table name appended without the version # fingerprint test
cleanup_table_names_both(s) == <<table_name(s, FALSE), table_name(s, TRUE)>>

\* table_names of _cleanup_snapshot
cleanup_table_names(s) ==
    IF s.version # s.fingerprint
    THEN <<table_name(s, FALSE), table_name(s, TRUE)>>
    ELSE <<table_name(s, FALSE)>>

\* The task of one snapshot as its function is entered.
FirstStep(op, s) ==
    CASE op = "promote" -> [PendingTask EXCEPT !.pc = "create_schema"]
      [] op = "demote" -> [PendingTask EXCEPT !.pc = "table_exists"]
      [] op = "cleanup" ->
            [PendingTask EXCEPT !.pc = "table_exists",
                                !.names = cleanup_table_names(s)]
      [] op = "create" ->
            IF is_embedded_kind(s)
            THEN [PendingTask EXCEPT !.pc = "done"]
            ELSE [PendingTask EXCEPT !.pc = "create_schema"]
      [] op = "migrate" ->
            IF ~is_materialized(s)
            THEN [PendingTask EXCEPT !.pc = "done"]
            ELSE [PendingTask EXCEPT !.pc = "columns_target"]

\* A worker of the pool takes the next snapshot whose dependencies are done;
\* nothing is started after a task has failed.
Dispatch(id) ==
    /\ call.phase = "fanout"
    /\ tasks[id].pc = "pending"
    /\ call.error = ""
    /\ Cardinality(ActiveIds) < ddl_concurrent_tasks
    /\ \A d \in Deps(id, call.targets, reverse_order(call.op)) :
            tasks[d].pc = "done"
    /\ tasks' = [tasks EXCEPT ![id] = FirstStep(call.op, Snap(id))]
    /\ UNCHANGED <<ddl_concurrent_tasks, objects, call, log, outcome, evalVars, auditVars>>

At(id, op, pc) ==
    /\ call.phase = "fanout"
    /\ call.op = op
    /\ tasks[id].pc = pc

\* ------------------------------------------------------ _promote_snapshot

\* the table name taken for the is_dev of the call
promote_table_name_for_is_dev(s, is_dev) == table_name(s, is_dev)

\* table_name = snapshot.table_name()
promote_table_name(s, is_dev) == table_name(s, FALSE)

\* the view is created whether or not the table exists
promote_branch_always_create(exists) == "create_view"

\* if self.adapter.table_exists(table_name): create_view ... else: drop_view
promote_branch(exists) == IF exists THEN "create_view" ELSE "drop_view"

promote_create_schema(id) ==
    /\ At(id, "promote", "create_schema")
    /\ log' = Logged("create_schema",
                     schema_for_environment(Snap(id), Environment), id, "ok")
    /\ tasks' = [tasks EXCEPT ![id].pc = "table_exists"]
    /\ UNCHANGED <<ddl_concurrent_tasks, objects, call, outcome, evalVars, auditVars>>

promote_table_exists(id) ==
    LET tn == promote_table_name(Snap(id), call.is_dev)
        e == table_exists(tn)
    IN  /\ At(id, "promote", "table_exists")
        /\ log' = Logged("table_exists", tn, id, IF e THEN "true" ELSE "false")
        /\ tasks' = [tasks EXCEPT ![id].exists = e,
                                  ![id].pc = promote_branch(e)]
        /\ UNCHANGED <<ddl_concurrent_tasks, objects, call, outcome, evalVars, auditVars>>

promote_create_view(id) ==
    LET vn == for_environment(Snap(id), Environment)
        tn == promote_table_name(Snap(id), call.is_dev)
    IN  /\ At(id, "promote", "create_view")
        /\ log' = Logged("create_view", vn, id, "ok")
        /\ objects' = [objects EXCEPT
                          ![vn] = create_view(@, select_star_from(tn))]
        /\ tasks' = Finish(id)
        /\ UNCHANGED <<ddl_concurrent_tasks, call, outcome, evalVars, auditVars>>

promote_drop_view(id) ==
    LET vn == for_environment(Snap(id), Environment)
    IN  /\ At(id, "promote", "drop_view")
        /\ log' = Logged("drop_view", vn, id,
                         IF drop_view_raises(objects[vn]) THEN "raised" ELSE "ok")
        /\ IF drop_view_raises(objects[vn])
           THEN RaiseIn(id, "AdapterError") /\ UNCHANGED objects
           ELSE /\ objects' = [objects EXCEPT ![vn] = drop_view(@)]
                /\ tasks' = Finish(id)
                /\ UNCHANGED call
        /\ UNCHANGED <<ddl_concurrent_tasks, outcome, evalVars, auditVars>>

\* ------------------------------------------------------- _demote_snapshot

\* the view is dropped whether or not it exists
demote_branch_always_drop(exists) == "drop_view"

\* if self.adapter.table_exists(view_name): drop_view
demote_branch(exists) == IF exists THEN "drop_view" ELSE "done"

demote_table_exists(id) ==
    LET vn == for_environment(Snap(id), Environment)
        e == table_exists(vn)
    IN  /\ At(id, "demote", "table_exists")
        /\ log' = Logged("table_exists", vn, id, IF e THEN "true" ELSE "false")
        /\ tasks' = [tasks EXCEPT ![id].exists = e,
                                  ![id].pc = demote_branch(e)]
        /\ UNCHANGED <<ddl_concurrent_tasks, objects, call, outcome, evalVars, auditVars>>

demote_drop_view(id) ==
    LET vn == for_environment(Snap(id), Environment)
    IN  /\ At(id, "demote", "drop_view")
        /\ log' = Logged("drop_view", vn, id,
                         IF drop_view_raises(objects[vn]) THEN "raised" ELSE "ok")
        /\ IF drop_view_raises(objects[vn])
           THEN RaiseIn(id, "AdapterError") /\ UNCHANGED objects
           ELSE /\ objects' = [objects EXCEPT ![vn] = drop_view(@)]
                /\ tasks' = Finish(id)
                /\ UNCHANGED call
        /\ UNCHANGED <<ddl_concurrent_tasks, outcome, evalVars, auditVars>>

\* ------------------------------------------------------- _create_snapshot

\* every snapshot built into its permanent name
create_is_dev_never(s) == FALSE

\* is_dev = not snapshot.is_new_version
create_is_dev(s) == ~is_new_version(s)

\* parent_tables_by_name = {snapshots[p_sid].name:
\*     snapshots[p_sid].table_name(is_dev=is_dev) for p_sid in snapshot.parents}
parent_tables_by_name(s) ==
    {<<Snap(p).name, table_name(Snap(p), create_is_dev(s))>> : p \in s.parents}

create_create_schema(id) ==
    /\ At(id, "create", "create_schema")
    /\ log' = Logged("create_schema", physical_schema(Snap(id)), id, "ok")
    /\ tasks' = [tasks EXCEPT ![id].mapping = parent_tables_by_name(Snap(id)),
                              ![id].pc =
                    IF is_view_kind(Snap(id)) THEN "create_view"
                    ELSE "create_table"]
    /\ UNCHANGED <<ddl_concurrent_tasks, objects, call, outcome, evalVars, auditVars>>

create_create_view(id) ==
    LET s == Snap(id)
        tn == table_name(s, create_is_dev(s))
    IN  /\ At(id, "create", "create_view")
        /\ log' = Logged("create_view", tn, id, "ok")
        /\ objects' = [objects EXCEPT ![tn] = create_view(@, render_query(s))]
        /\ tasks' = Finish(id)
        /\ UNCHANGED <<ddl_concurrent_tasks, call, outcome, evalVars, auditVars>>

create_create_table(id) ==
    LET s == Snap(id)
        tn == table_name(s, create_is_dev(s))
    IN  /\ At(id, "create", "create_table")
        /\ log' = Logged("create_table", tn, id, "ok")
        /\ objects' = [objects EXCEPT ![tn] = create_table(@, s.columns)]
        /\ tasks' = Finish(id)
        /\ UNCHANGED <<ddl_concurrent_tasks, call, outcome, evalVars, auditVars>>

\* ------------------------------------------------------ _migrate_snapshot

migrate_columns_target(id) ==
    LET tn == table_name(Snap(id), FALSE)
    IN  /\ At(id, "migrate", "columns_target")
        /\ log' = Logged("columns", tn, id,
                         IF columns_raises(objects[tn]) THEN "raised" ELSE "ok")
        /\ IF columns_raises(objects[tn])
           THEN RaiseIn(id, "AdapterError")
           ELSE /\ tasks' = [tasks EXCEPT ![id].cols = objects[tn].cols,
                                          ![id].pc = "columns_source"]
                /\ UNCHANGED call
        /\ UNCHANGED <<ddl_concurrent_tasks, objects, outcome, evalVars, auditVars>>

migrate_columns_source(id) ==
    LET tn == table_name(Snap(id), TRUE)
    IN  /\ At(id, "migrate", "columns_source")
        /\ log' = Logged("columns", tn, id,
                         IF columns_raises(objects[tn]) THEN "raised" ELSE "ok")
        /\ IF columns_raises(objects[tn])
           THEN RaiseIn(id, "AdapterError")
           ELSE /\ tasks' = [tasks EXCEPT
                                ![id].deltas = calculate(tasks[id].cols,
                                                         objects[tn].cols),
                                ![id].pc = "alter_table"]
                /\ UNCHANGED call
        /\ UNCHANGED <<ddl_concurrent_tasks, objects, outcome, evalVars, auditVars>>

\* the ADD deltas left out of the alter
added_columns_none(deltas) == <<>>

\* added_columns[delta.column_name] = delta.column_type for every ADD
added_columns(deltas) ==
    LET IsAdd(d) == d[1] = "ADD"
        adds == SelectSeq(deltas, IsAdd)
    IN  [i \in 1..Len(adds) |-> <<adds[i][2], adds[i][3]>>]

\* the DROP deltas left out of the alter
dropped_columns_none(deltas) == <<>>

\* dropped_columns.append(delta.column_name) for every DROP
dropped_columns(deltas) ==
    LET IsDrop(d) == d[1] = "DROP"
        drops == SelectSeq(deltas, IsDrop)
    IN  [i \in 1..Len(drops) |-> <<drops[i][2], drops[i][3]>>]

migrate_alter_table(id) ==
    LET tn == table_name(Snap(id), FALSE)
        d == tasks[id].deltas
    IN  /\ At(id, "migrate", "alter_table")
        /\ log' = Logged("alter_table", tn, id,
                         IF alter_table_raises(objects[tn]) THEN "raised" ELSE "ok")
        /\ IF alter_table_raises(objects[tn])
           THEN RaiseIn(id, "AdapterError") /\ UNCHANGED objects
           ELSE /\ objects' = [objects EXCEPT ![tn] =
                                 alter_table(@, added_columns(d),
                                             dropped_columns(d))]
                /\ tasks' = Finish(id)
                /\ UNCHANGED call
        /\ UNCHANGED <<ddl_concurrent_tasks, outcome, evalVars, auditVars>>

\* ------------------------------------------------------ _cleanup_snapshot

\* The loop goes on to the next table name, or the function returns.
NextName(t) ==
    [t EXCEPT !.names = Tail(@),
              !.pc = IF Len(t.names) > 1 THEN "table_exists" ELSE "done"]

\* a failing drop_table ends the snapshot's cleanup
cleanup_except_reraises(t) == [t EXCEPT !.pc = "failed"]

\* try: drop_table(table_name) except Exception: drop_view(table_name)
cleanup_except(t) == [t EXCEPT !.pc = "drop_view"]

cleanup_table_exists(id) ==
    LET tn == Head(tasks[id].names)
        e == table_exists(tn)
    IN  /\ At(id, "cleanup", "table_exists")
        /\ log' = Logged("table_exists", tn, id, IF e THEN "true" ELSE "false")
        /\ tasks' = [tasks EXCEPT ![id] =
                        IF e THEN [@ EXCEPT !.exists = TRUE, !.pc = "drop_table"]
                        ELSE NextName([@ EXCEPT !.exists = FALSE])]
        /\ UNCHANGED <<ddl_concurrent_tasks, objects, call, outcome, evalVars, auditVars>>

cleanup_drop_table(id) ==
    LET tn == Head(tasks[id].names)
    IN  /\ At(id, "cleanup", "drop_table")
        /\ log' = Logged("drop_table", tn, id,
                         IF drop_table_raises(objects[tn]) THEN "raised" ELSE "ok")
        /\ IF drop_table_raises(objects[tn])
           THEN /\ tasks' = [tasks EXCEPT ![id] = cleanup_except(@)]
                /\ UNCHANGED objects
           ELSE /\ objects' = [objects EXCEPT ![tn] = drop_table(@)]
                /\ tasks' = [tasks EXCEPT ![id] = NextName(@)]
        /\ UNCHANGED <<ddl_concurrent_tasks, call, outcome, evalVars, auditVars>>

cleanup_drop_view(id) ==
    LET tn == Head(tasks[id].names)
    IN  /\ At(id, "cleanup", "drop_view")
        /\ log' = Logged("drop_view", tn, id,
                         IF drop_view_raises(objects[tn]) THEN "raised" ELSE "ok")
        /\ IF drop_view_raises(objects[tn])
           THEN RaiseIn(id, "AdapterError") /\ UNCHANGED objects
           ELSE /\ objects' = [objects EXCEPT ![tn] = drop_view(@)]
                /\ tasks' = [tasks EXCEPT ![id] = NextName(@)]
                /\ UNCHANGED call
        /\ UNCHANGED <<ddl_concurrent_tasks, outcome, evalVars, auditVars>>

\* ------------------------------------------------------- adapter failures

WriteCalls ==
    {"create_view", "drop_view", "create_table", "alter_table", "drop_table"}

\* The object the pending adapter call of a task is about.
Target(id) ==
    LET s == Snap(id)
    IN  CASE call.op \in {"promote", "demote"} ->
                IF call.op = "promote" /\ tasks[id].pc = "table_exists"
                THEN promote_table_name(s, call.is_dev)
                ELSE for_environment(s, Environment)
          [] call.op = "create" -> table_name(s, create_is_dev(s))
          [] call.op = "migrate" ->
                table_name(s, tasks[id].pc = "columns_source")
          [] OTHER -> Head(tasks[id].names)

\* The engine fails a write call (connection lost, permission denied, ...).
\* _cleanup_snapshot catches a failing drop_table and tries drop_view; any
\* other failure ends the task.
adapter_raises(id) ==
    /\ call.phase = "fanout"
    /\ tasks[id].pc \in WriteCalls
    /\ call.faults > 0
    /\ log' = Logged(tasks[id].pc, Target(id), id, "raised")
    /\ IF call.op = "cleanup" /\ tasks[id].pc = "drop_table"
       THEN /\ tasks' = [tasks EXCEPT ![id] = cleanup_except(@)]
            /\ call' = [call EXCEPT !.faults = @ - 1]
       ELSE /\ tasks' = [tasks EXCEPT ![id].pc = "failed"]
            /\ call' = [call EXCEPT !.faults = @ - 1,
                           !.error = IF @ = "" THEN "AdapterError" ELSE @]
    /\ UNCHANGED <<ddl_concurrent_tasks, objects, outcome, evalVars, auditVars>>

\* ------------------------------------------- concurrent_context / recycle

\* The fan-out ends: every task ran, or one failed and the running ones ended.
fanout_ends ==
    /\ call.phase = "fanout"
    /\ ActiveIds = {}
    /\ call.error # "" \/ \A id \in SnapshotIds : tasks[id].pc # "pending"
    /\ call' = [call EXCEPT !.phase = "exit"]
    /\ UNCHANGED <<ddl_concurrent_tasks, objects, tasks, log, outcome, evalVars, auditVars>>

\* recycle without its try / except
recycle_result_unguarded(adapter_raised) ==
    IF adapter_raised THEN "raised" ELSE "returned"

\* SnapshotEvaluator.recycle: try: adapter.recycle() except Exception: log
recycle_result(adapter_raised) == "returned"

\* try: yield finally: self.recycle()
concurrent_context_result(body_error, recycle_res) ==
    IF recycle_res = "raised" THEN "RecycleError"
    ELSE IF body_error # "" THEN body_error
    ELSE "ok"

\* recycle after the body instead of in a finally: skipped when it raised
context_exit_no_finally ==
    \E adapter_raised \in BOOLEAN :
        /\ call.phase = "exit"
        /\ adapter_raised => call.faults > 0 /\ call.error = ""
        /\ log' = IF call.error # "" THEN log
                  ELSE Logged("recycle", NoDef, "",
                              IF adapter_raised THEN "raised" ELSE "ok")
        /\ outcome' = concurrent_context_result(call.error,
                                                recycle_result(adapter_raised))
        /\ call' = [call EXCEPT !.phase = "done",
                                !.faults = IF adapter_raised THEN @ - 1 ELSE @]
        /\ UNCHANGED <<ddl_concurrent_tasks, objects, tasks, evalVars, auditVars>>

context_exit ==
    \E adapter_raised \in BOOLEAN :
        /\ call.phase = "exit"
        /\ adapter_raised => call.faults > 0
        /\ log' = Logged("recycle", NoDef, "",
                         IF adapter_raised THEN "raised" ELSE "ok")
        /\ outcome' = concurrent_context_result(call.error,
                                                recycle_result(adapter_raised))
        /\ call' = [call EXCEPT !.phase = "done",
                                !.faults = IF adapter_raised THEN @ - 1 ELSE @]
        /\ UNCHANGED <<ddl_concurrent_tasks, objects, tasks, evalVars, auditVars>>

\* SnapshotEvaluator.recycle() and SnapshotEvaluator.close(), called directly
Direct(op, adapter_raised, res) ==
    /\ call.phase = "idle"
    /\ call' = [Idle EXCEPT !.op = op, !.phase = "done"]
    /\ tasks' = [id \in SnapshotIds |-> NoTask]
    /\ log' = <<<<op, NoDef, "", IF adapter_raised THEN "raised" ELSE "ok">>>>
    /\ outcome' = IF res = "raised" THEN "AdapterError" ELSE "ok"
    /\ UNCHANGED <<ddl_concurrent_tasks, objects, evalVars, auditVars>>

recycle ==
    \E adapter_raised \in BOOLEAN :
        Direct("recycle", adapter_raised, recycle_result(adapter_raised))

\* SnapshotEvaluator.close: try: adapter.close() except Exception: log
close_result(adapter_raised) == "returned"

close ==
    \E adapter_raised \in BOOLEAN :
        Direct("close", adapter_raised, close_result(adapter_raised))

\* The call has ended and its caller goes on.
returns ==
    /\ call.phase = "done"
    /\ call' = Idle
    /\ tasks' = [id \in SnapshotIds |-> NoTask]
    /\ log' = <<>>
    /\ outcome' = ""
    /\ ev' = NoEval
    /\ UNCHANGED <<ddl_concurrent_tasks, objects, supports_partitions, rows,
                   snapshot, auditVars>>

\* ---------------------------------------------------------------- evaluate

\* adapter writes to the rows of a table; a row is <<batch, time column value>>
insert_append(old, data) == old \cup data

replace_query(old, data) == data

\* overwrites the partitions (time column values) the data has rows for
insert_overwrite(old, data) ==
    {r \in old : \A d \in data : d[2] # r[2]} \cup data

\* exp.Between(this=column, low=low, high=high)
Between(r, low, high) == low <= r[2] /\ r[2] <= high

\* DELETE FROM table WHERE where; INSERT INTO table <query>
delete_insert_query(old, data, low, high) ==
    {r \in old : ~Between(r, low, high)} \cup data

\* make_inclusive(start, end): the interval, both ends included, in days
make_inclusive(start, end) == <<start, end>>

\* model.convert_to_time_column(dt): the day in the time column's format
convert_to_time_column(dt) == 20240100 + dt

\* What the model produces for one batch: a row per day of the interval.
Data(index, start, end) ==
    {<<index, convert_to_time_column(d)>> : d \in start..end}

\* apply without the supports_partitions branch
apply_no_overwrite(s, index, partitions) ==
    IF is_view_kind(s)
    THEN IF index > 0 THEN "ConfigError" ELSE "create_view"
    ELSE IF index > 0 THEN "insert_append"
    ELSE IF is_full_kind(s) THEN "replace_query"
    ELSE IF is_incremental_by_time_range_kind(s) THEN "delete_insert_query"
    ELSE "insert_append"

\* apply without the index test of the view branch
apply_view_any_batch(s, index, partitions) ==
    IF is_view_kind(s) THEN "create_view"
    ELSE IF index > 0 THEN "insert_append"
    ELSE IF is_full_kind(s) THEN "replace_query"
    ELSE IF partitions THEN "insert_overwrite"
    ELSE IF is_incremental_by_time_range_kind(s) THEN "delete_insert_query"
    ELSE "insert_append"

\* apply with the full-kind test ahead of the index test
apply_full_before_index(s, index, partitions) ==
    IF is_view_kind(s)
    THEN IF index > 0 THEN "ConfigError" ELSE "create_view"
    ELSE IF is_full_kind(s) THEN "replace_query"
    ELSE IF index > 0 THEN "insert_append"
    ELSE IF partitions THEN "insert_overwrite"
    ELSE IF is_incremental_by_time_range_kind(s) THEN "delete_insert_query"
    ELSE "insert_append"

\* apply(query_or_df, index): the adapter call it makes, or the error it raises
apply(s, index, partitions) ==
    IF is_view_kind(s)
    THEN IF index > 0 THEN "ConfigError" ELSE "create_view"
    ELSE IF index > 0 THEN "insert_append"
    ELSE IF is_full_kind(s) THEN "replace_query"
    ELSE IF partitions THEN "insert_overwrite"
    ELSE IF is_incremental_by_time_range_kind(s) THEN "delete_insert_query"
    ELSE "insert_append"

\* low, high = [convert_to_time_column(dt) for dt in make_inclusive(start, end)]
where_bounds(start, end) ==
    LET incl == make_inclusive(start, end)
    IN  <<convert_to_time_column(incl[1]), convert_to_time_column(incl[2])>>

\* The effect of the call apply makes, on the table evaluate writes to.
Applied(c, tn, index) ==
    LET data == Data(index, ev.start, ev.end)
        w == where_bounds(ev.start, ev.end)
    IN  /\ log' = Append(log, <<c, tn, index,
                     IF c = "delete_insert_query" THEN w ELSE <<>> >>)
        /\ objects' = [objects EXCEPT ![tn] =
                          IF c = "create_view"
                          THEN create_view(@, render_query(snapshot)) ELSE @]
        /\ rows' = [rows EXCEPT ![tn] =
                      CASE c = "insert_append" -> insert_append(@, data)
                        [] c = "replace_query" -> replace_query(@, data)
                        [] c = "insert_overwrite" -> insert_overwrite(@, data)
                        [] c = "delete_insert_query" ->
                                delete_insert_query(@, data, w[1], w[2])
                        [] OTHER -> @]

EvalAt(pc) == call.phase = "eval" /\ ev.pc = pc

EvalDone(res) ==
    /\ call' = [call EXCEPT !.phase = "done"]
    /\ outcome' = res

\* evaluate(snapshot, start, end, latest, mapping, limit, is_dev)
evaluate ==
    \E start \in Days, end \in Days, limit \in {0, MaxLimit}, is_dev \in BOOLEAN,
       batches \in 0..MaxBatches :
        /\ call.phase = "idle"
        /\ start <= end
        /\ snapshot.is_sql => batches = 1
        /\ log' = <<>>
        /\ IF is_embedded_kind(snapshot)
           THEN /\ call' = [Idle EXCEPT !.op = "evaluate", !.phase = "done"]
                /\ outcome' = "None"
                /\ ev' = NoEval
           ELSE /\ call' = [Idle EXCEPT !.op = "evaluate", !.phase = "eval"]
                /\ outcome' = ""
                /\ ev' = [pc |-> "statements", start |-> start, end |-> end,
                          limit |-> limit, is_dev |-> is_dev,
                          batches |-> batches, index |-> 0,
                          stmts |-> snapshot.sql_statements]
        /\ UNCHANGED <<ddl_concurrent_tasks, objects, tasks,
                       supports_partitions, rows, snapshot, auditVars>>

\* adapter.execute(statement): a CREATE TABLE creates the table it names
execute(objs, stmt) ==
    IF stmt = "CREATE TABLE"
    THEN [objs EXCEPT ![ScratchName] = create_table(@, <<>>)]
    ELSE objs

\* for sql_statement in model.sql_statements: self.adapter.execute(sql_statement)
eval_statements ==
    /\ EvalAt("statements")
    /\ IF ev.stmts = <<>>
       THEN /\ ev' = [ev EXCEPT !.pc = IF snapshot.is_sql THEN "query"
                                       ELSE "transaction"]
            /\ UNCHANGED <<objects, log>>
       ELSE /\ log' = Append(log, <<"execute", NoDef, 0, <<Head(ev.stmts)>> >>)
            /\ objects' = execute(objects, Head(ev.stmts))
            /\ ev' = [ev EXCEPT !.stmts = Tail(@)]
    /\ UNCHANGED <<ddl_concurrent_tasks, call, tasks, outcome,
                   supports_partitions, rows, snapshot, auditVars>>

\* if limit > 0: return self.adapter.fetchdf(query.limit(limit))
eval_query_fetchdf ==
    /\ EvalAt("query")
    /\ ev.limit > 0
    /\ log' = Append(log, <<"fetchdf", NoDef, 0, <<ev.limit>> >>)
    /\ EvalDone("DataFrame")
    /\ ev' = [ev EXCEPT !.pc = "done"]
    /\ UNCHANGED <<ddl_concurrent_tasks, objects, tasks, supports_partitions,
                   rows, snapshot, auditVars>>

\* apply(query) without the limit test before it
eval_query_apply_any_limit ==
    /\ EvalAt("query")
    /\ Applied(apply(snapshot, 0, supports_partitions),
               table_name(snapshot, ev.is_dev), 0)
    /\ EvalDone("None")
    /\ ev' = [ev EXCEPT !.pc = "done"]
    /\ UNCHANGED <<ddl_concurrent_tasks, tasks, supports_partitions, snapshot, auditVars>>

\* apply(query); return None
eval_query_apply ==
    /\ EvalAt("query")
    /\ ~(ev.limit > 0)
    /\ Applied(apply(snapshot, 0, supports_partitions),
               table_name(snapshot, ev.is_dev), 0)
    /\ EvalDone("None")
    /\ ev' = [ev EXCEPT !.pc = "done"]
    /\ UNCHANGED <<ddl_concurrent_tasks, tasks, supports_partitions, snapshot, auditVars>>

\* with self.adapter.transaction():
eval_transaction ==
    /\ EvalAt("transaction")
    /\ log' = Append(log, <<"begin", NoDef, 0, <<>> >>)
    /\ ev' = [ev EXCEPT !.pc = "batch"]
    /\ UNCHANGED <<ddl_concurrent_tasks, objects, call, tasks, outcome,
                   supports_partitions, rows, snapshot, auditVars>>

\* the generator of exec_python is exhausted: return None
eval_batches_end ==
    /\ EvalAt("batch")
    /\ ev.index = ev.batches
    /\ log' = Append(log, <<"commit", NoDef, 0, <<>> >>)
    /\ EvalDone("None")
    /\ ev' = [ev EXCEPT !.pc = "done"]
    /\ UNCHANGED <<ddl_concurrent_tasks, objects, tasks, supports_partitions,
                   rows, snapshot, auditVars>>

\* if limit > 0: return df.head(limit)
eval_batch_head ==
    /\ EvalAt("batch")
    /\ ev.index < ev.batches
    /\ ev.limit > 0
    /\ log' = Append(log, <<"commit", NoDef, 0, <<>> >>)
    /\ EvalDone("DataFrame")
    /\ ev' = [ev EXCEPT !.pc = "done"]
    /\ UNCHANGED <<ddl_concurrent_tasks, objects, tasks, supports_partitions,
                   rows, snapshot, auditVars>>

\* apply(df, index)
eval_batch_apply ==
    LET c == apply(snapshot, ev.index, supports_partitions)
    IN  /\ EvalAt("batch")
        /\ ev.index < ev.batches
        /\ ~(ev.limit > 0)
        /\ IF c = "ConfigError"
           THEN /\ log' = Append(log, <<"rollback", NoDef, 0, <<>> >>)
                /\ EvalDone("ConfigError")
                /\ ev' = [ev EXCEPT !.pc = "done"]
                /\ UNCHANGED <<objects, rows>>
           ELSE /\ Applied(c, table_name(snapshot, ev.is_dev), ev.index)
                /\ ev' = [ev EXCEPT !.index = @ + 1]
                /\ UNCHANGED <<call, outcome>>
        /\ UNCHANGED <<ddl_concurrent_tasks, tasks, supports_partitions,
                       snapshot, auditVars>>

\* The rows earlier evaluations left in a table: at most one per day.
OldRows == {<<-1, convert_to_time_column(d)>> : d \in Days}

\* The engine as evaluate finds it: the snapshot has been created (a view for
\* a view model, nothing for an embedded one, else its tables, which hold
\* the rows of earlier evaluations).
InitEval ==
    /\ ddl_concurrent_tasks = 1
    /\ snapshot \in EvalSnapshots
    /\ supports_partitions \in BOOLEAN
    /\ objects = [n \in PhysNames |->
                    IF n \in EvalNames \ {ScratchName}
                    THEN IF is_embedded_kind(snapshot) THEN Absent
                         ELSE IF is_view_kind(snapshot)
                              THEN ViewOf(render_query(snapshot))
                         ELSE TableOf(snapshot.columns)
                    ELSE Absent]
    /\ \E old \in SUBSET OldRows :
          rows = [n \in EvalNames |->
                    IF n # ScratchName /\ is_materialized(snapshot)
                    THEN old ELSE {}]
    /\ call = Idle
    /\ tasks = [id \in SnapshotIds |-> NoTask]
    /\ log = <<>>
    /\ outcome = ""
    /\ ev = NoEval
    /\ au = NoAudit
    /\ ld = NoLoad

NextEval ==
    \/ evaluate
    \/ eval_statements
    \/ eval_query_fetchdf
    \/ eval_query_apply
    \/ eval_transaction
    \/ eval_batches_end
    \/ eval_batch_head
    \/ eval_batch_apply

SpecEval == InitEval /\ [][NextEval]_vars

\* ------------------------------------------- audit definitions (inputs)

\* Largest number of statements in a stream given to load_multiple.
MaxStatements == 5

\* A parsed statement: its class, its position in the source (its identity),
\* the properties of an AUDIT header as <<field, value>>, and the number of
\* expressions a SELECT selects.  A property value is <<class, text>>: a
\* parsed expression (Boolean, Column, Literal) or a raw string (str).
Statement(type, id, props, selects) ==
    [type |-> type, id |-> id, props |-> props, selects |-> selects]

ExpressionClasses == {"Boolean", "Column", "Literal"}

Missing == <<"absent", "">>

\* The values a header gives to blocking.
BoolValues ==
    {<<"Boolean", "true">>, <<"Boolean", "false">>,
     <<"Column", "no">>, <<"Column", "NO">>, <<"Column", "No">>,
     <<"Column", "yes">>, <<"Column", "off">>,
     <<"Literal", "false">>, <<"Literal", "FALSE">>, <<"Literal", "False">>,
     <<"Literal", "0">>}

AuditNameAt(id) ==
    CASE id = 1 -> "a1" [] id = 2 -> "a2" [] id = 3 -> "a3" [] id = 4 -> "a4"
      [] id = 5 -> "a5" [] id = 6 -> "a6" [] OTHER -> "a7"

\* The properties of a header, in the order they are written.
Props(c) ==
    LET Given(p) == p[2] # Missing
    IN  SelectSeq(<< <<"name", c.name>>, <<"model", c.model>>,
                     <<"dialect", c.dialect>>, <<"skip", c.skip>>,
                     <<"blocking", c.blocking>>, <<"owner", c.owner>> >>,
                  Given)

\* The headers of single blocks: each field given or not, blocking and skip
\* with the values a header can give them, owner a field AuditMeta lacks.
Headers ==
    {Props(c) : c \in
        [name : {Missing, <<"Column", AuditNameAt(1)>>},
         model : {Missing, <<"str", "db.table">>},
         dialect : {Missing, <<"Column", "spark">>},
         skip : {Missing, <<"Boolean", "true">>, <<"Column", "no">>},
         blocking : {Missing} \cup BoolValues,
         owner : {Missing, <<"Column", "me">>}]}

\* A statement of the given kind at position id: a header naming its audit
\* after its position (H), a header without model (Hbad), a macro
\* definition (M), a query (Q), a query that selects nothing (Q0), a
\* statement that is not a query (I).
StatementAt(kind, id) ==
    CASE kind = "H" ->
            Statement("Audit", id,
                      << <<"name", <<"Column", AuditNameAt(id)>> >>,
                         <<"model", <<"str", "db.table">> >> >>, 0)
      [] kind = "Hbad" ->
            Statement("Audit", id,
                      << <<"name", <<"Column", AuditNameAt(id)>> >> >>, 0)
      [] kind = "M" -> Statement("MacroDef", id, <<>>, 0)
      [] kind = "Q" -> Statement("Select", id, <<>>, 1)
      [] kind = "Q0" -> Statement("Select", id, <<>>, 0)
      [] OTHER -> Statement("Insert", id, <<>>, 0)

\* The single blocks Audit.load is given: nothing, one statement, or a first
\* statement (a header or not), at most one macro definition, and a last
\* statement.
Blocks ==
    LET firsts == {Statement("Audit", 1, h, 0) : h \in Headers}
                     \cup {StatementAt("Q", 1)}
    IN  {<<>>} \cup {<<f>> : f \in firsts}
          \cup {<<f, StatementAt(k, 2)>> : f \in firsts, k \in {"Q", "Q0", "I"}}
          \cup {<<f, StatementAt("M", 2), StatementAt(k, 3)>> :
                    f \in firsts, k \in {"Q", "Q0", "I"}}

\* The statement streams load_multiple is given.
Streams ==
    UNION {{[i \in 1..n |-> StatementAt(k[i], i)] :
                k \in [1..n -> {"H", "Hbad", "M", "Q"}]} :
           n \in 0..MaxStatements}

Paths == {"audits/a.sql", "audits/b.sql"}

\* The default dialect given to load: None, or a dialect.
Dialects == {"None", "duckdb"}

\* -------------------------------------------------- AuditMeta / Audit.load

\* str.lower() on the texts a header value has
lower(text) ==
    CASE text \in {"FALSE", "False"} -> "false"
      [] text \in {"NO", "No"} -> "no"
      [] OTHER -> text

\* v.name for an expression, str(v) for a raw string
_string_validator(v) == v[2]

\* the text compared without lower()
_bool_validator_case_sensitive(v) ==
    IF v[1] = "Boolean" THEN v[2] = "true"
    ELSE IF v[1] \in ExpressionClasses THEN v[2] \notin {"false", "no"}
    ELSE v[2] # ""

\* exp.Boolean: v.this; another expression: v.name.lower() not in
\* ("false", "no"); anything else: bool(v)
_bool_validator(v) ==
    IF v[1] = "Boolean" THEN v[2] = "true"
    ELSE IF v[1] \in ExpressionClasses THEN lower(v[2]) \notin {"false", "no"}
    ELSE v[2] # ""

AuditMetaFields == {"name", "model", "dialect", "skip", "blocking"}

RequiredFields == {"name", "model"}

missing_required_fields(provided) == RequiredFields \ provided

extra_fields(provided) == provided \ AuditMetaFields

\* {p.name for p in meta.expressions}
provided_meta_fields(props) == {props[i][1] : i \in DOMAIN props}

\* {prop.name: prop.args.get("value") for prop in meta.expressions}[field]
ValueOf(props, field) ==
    LET at == {i \in DOMAIN props : props[i][1] = field}
    IN  props[CHOOSE i \in at : \A j \in at : j <= i][2]

\* AuditMeta(**fields): the validators on the fields given, the defaults of
\* the class for the others
AuditMeta(props) ==
    LET given == provided_meta_fields(props)
    IN  [name |-> _string_validator(ValueOf(props, "name")),
         model |-> ValueOf(props, "model")[2],
         dialect |-> IF "dialect" \in given
                     THEN _string_validator(ValueOf(props, "dialect"))
                     ELSE "",
         skip |-> IF "skip" \in given
                  THEN _bool_validator(ValueOf(props, "skip"))
                  ELSE FALSE,
         blocking |-> IF "blocking" \in given
                      THEN _bool_validator(ValueOf(props, "blocking"))
                      ELSE TRUE]

\* BaseModel.dict(): every field of the model, those left at their default
\* included
dict(m) == [f \in AuditMetaFields |-> m[f]]

\* {**a, **b}
DictMerge(a, b) ==
    [k \in DOMAIN a \cup DOMAIN b |-> IF k \in DOMAIN b THEN b[k] ELSE a[k]]

Subqueryable == {"Select", "Union"}

\* load without the test for extra fields
load_error_extra_fields_allowed(expressions) ==
    IF Len(expressions) < 2
    THEN "Incomplete audit definition, missing AUDIT or QUERY"
    ELSE LET meta == Head(expressions)
             query == expressions[Len(expressions)]
             provided == provided_meta_fields(meta.props)
         IN  IF meta.type # "Audit" THEN "AUDIT statement is required"
             ELSE IF missing_required_fields(provided) # {}
             THEN "Missing required fields"
             ELSE IF query.type \notin Subqueryable
             THEN "Missing SELECT query"
             ELSE IF query.selects = 0 THEN "Query missing select statements"
             ELSE ""

\* The checks of load, in order: the message of the first that fails, or "".
load_error(expressions) ==
    IF Len(expressions) < 2
    THEN "Incomplete audit definition, missing AUDIT or QUERY"
    ELSE LET meta == Head(expressions)
             query == expressions[Len(expressions)]
             provided == provided_meta_fields(meta.props)
         IN  IF meta.type # "Audit" THEN "AUDIT statement is required"
             ELSE IF missing_required_fields(provided) # {}
             THEN "Missing required fields"
             ELSE IF extra_fields(provided) # {}
             THEN "Invalid extra fields"
             ELSE IF query.type \notin Subqueryable
             THEN "Missing SELECT query"
             ELSE IF query.selects = 0 THEN "Query missing select statements"
             ELSE ""

\* raise_config_error(msg, location=path, error_type=AuditConfigError)
_raise_config_error(msg, path) == <<"AuditConfigError", msg, path>>

NoError == <<"", "", "">>

\* Audit.load(expressions, path=path, dialect=dialect): the audit, or the
\* error raised
load(expressions, path, dialect) ==
    IF load_error(expressions) # ""
    THEN [error |-> _raise_config_error(load_error(expressions), path),
          audit |-> <<>>]
    ELSE LET meta == Head(expressions)
             fields == DictMerge(
                 [dialect |-> IF dialect = "None" THEN "" ELSE dialect],
                 dict(AuditMeta(meta.props)))
         IN  [error |-> NoError,
              audit |-> [name |-> fields.name, model |-> fields.model,
                         dialect |-> fields.dialect, skip |-> fields.skip,
                         blocking |-> fields.blocking,
                         query |-> expressions[Len(expressions)],
                         expressions |->
                             SubSeq(expressions, 2, Len(expressions) - 1),
                         path |-> path]]

LoadVarsUnchanged ==
    UNCHANGED <<ddl_concurrent_tasks, objects, tasks, log, evalVars, au>>

\* Audit.load(expressions, path=path, dialect=dialect), called on the whole
\* of the statements
Audit_load ==
    LET r == load(ld.expressions, ld.path, ld.dialect)
    IN  /\ call.phase = "idle"
        /\ call' = [Idle EXCEPT !.op = "load", !.phase = "done"]
        /\ IF r.error # NoError
           THEN /\ outcome' = "AuditConfigError"
                /\ ld' = [ld EXCEPT !.pc = "done", !.error = r.error]
           ELSE /\ outcome' = "Audit"
                /\ ld' = [ld EXCEPT !.pc = "done", !.yielded = <<r.audit>>]
        /\ LoadVarsUnchanged

\* load_multiple(expressions, path=path, dialect=dialect): audit_block = []
load_multiple ==
    /\ call.phase = "idle"
    /\ call' = [Idle EXCEPT !.op = "load_multiple", !.phase = "load"]
    /\ outcome' = ""
    /\ ld' = [ld EXCEPT !.pc = "for", !.rest = ld.expressions,
                        !.audit_block = <<>>]
    /\ LoadVarsUnchanged

\* the block kept after an audit was yielded
next_audit_block_no_clear(audit_block, expression, yields) ==
    Append(audit_block, expression)

\* audit_block.clear() after a yield; audit_block.append(expression)
next_audit_block(audit_block, expression, yields) ==
    IF yields THEN <<expression>> ELSE Append(audit_block, expression)

\* for expression in expressions: a header that follows a block yields the
\* audit loaded from the block
load_multiple_for ==
    LET expression == Head(ld.rest)
        yields == expression.type = "Audit" /\ ld.audit_block # <<>>
        r == load(ld.audit_block, ld.path, ld.dialect)
    IN  /\ call.phase = "load"
        /\ ld.pc = "for"
        /\ ld.rest # <<>>
        /\ IF yields /\ r.error # NoError
           THEN /\ call' = [call EXCEPT !.phase = "done"]
                /\ outcome' = "AuditConfigError"
                /\ ld' = [ld EXCEPT !.pc = "done", !.error = r.error]
           ELSE /\ ld' = [ld EXCEPT
                            !.rest = Tail(@),
                            !.yielded = IF yields THEN Append(@, r.audit)
                                        ELSE @,
                            !.audit_block =
                                next_audit_block(@, expression, yields)]
                /\ UNCHANGED <<call, outcome>>
        /\ LoadVarsUnchanged

\* yield Audit.load(expressions=audit_block, ...) after the loop
load_multiple_flush ==
    LET r == load(ld.audit_block, ld.path, ld.dialect)
    IN  /\ call.phase = "load"
        /\ ld.pc = "for"
        /\ ld.rest = <<>>
        /\ call' = [call EXCEPT !.phase = "done"]
        /\ IF r.error # NoError
           THEN /\ outcome' = "AuditConfigError"
                /\ ld' = [ld EXCEPT !.pc = "done", !.error = r.error]
           ELSE /\ outcome' = "audits"
                /\ ld' = [ld EXCEPT !.pc = "done",
                                    !.yielded = Append(@, r.audit)]
        /\ LoadVarsUnchanged

\* The statements of a parsed audit file, the path of the file and the
\* default dialect, as load and load_multiple are given them.
InitLoad ==
    /\ ddl_concurrent_tasks = 1
    /\ objects = [n \in PhysNames |-> Absent]
    /\ call = Idle
    /\ tasks = [id \in SnapshotIds |-> NoTask]
    /\ log = <<>>
    /\ outcome = ""
    /\ supports_partitions = FALSE
    /\ rows = [n \in EvalNames |-> {}]
    /\ snapshot = Snap("S1")
    /\ ev = NoEval
    /\ au = NoAudit
    /\ \E e \in Blocks \cup Streams, path \in Paths, dialect \in Dialects :
          ld = [NoLoad EXCEPT !.expressions = e, !.path = path,
                              !.dialect = dialect]

NextLoad ==
    \/ Audit_load
    \/ load_multiple
    \/ load_multiple_for
    \/ load_multiple_flush

SpecLoad == InitLoad /\ [][NextLoad]_vars

\* ------------------------------------------------------------------- audit

\* Largest number of audits attached to a model.
MaxAudits == 3

\* Largest number of rows an audit query finds.
MaxCount == 3

AuditName(i) ==
    CASE i = 1 -> "not_null"
      [] i = 2 -> "unique"
      [] OTHER -> "accepted_values"

\* The audits a model can carry: the i-th is named AuditName(i), each is
\* blocking or not, skipped or not.
AuditLists ==
    UNION {{[i \in 1..n |-> [name |-> AuditName(i), blocking |-> b[i],
                             skip |-> k[i]]] :
                b \in [1..n -> BOOLEAN], k \in [1..n -> BOOLEAN]} :
           n \in 0..MaxAudits}

\* The snapshots audit is called on: a new version, or a later fingerprint
\* that reuses version 1.
AuditSnapshots ==
    [name : {"a"}, version : {1}, fingerprint : {1, 2}, kind : {"FULL"},
     parents : {{}}, columns : {<< <<"x", "int">> >>}, audits : AuditLists]

\* model.render_audit_queries(...): the audits of the model that are not
\* skipped, in order, each with its rendered query
render_audit_queries(s) ==
    LET NotSkipped(a) == ~a.skip IN SelectSeq(s.audits, NotSkipped)

\* The rendered query of an audit.
AuditQuery(a) == <<"audit", a.name, 0>>

\* the dev-table test left out
audit_skips_never(s, is_dev) == FALSE

\* if snapshot.is_dev_table(is_dev): return []
audit_skips(s, is_dev) == is_dev_table(s, is_dev)

\* the error raised for a non-blocking audit as well
audit_raises_non_blocking(count, raise_exception, blocking) ==
    count # 0 /\ raise_exception

\* no audit ends the call
audit_raises_never(count, raise_exception, blocking) == FALSE

\* if count and raise_exception: ... if audit.blocking: raise AuditError
audit_raises(count, raise_exception, blocking) ==
    count # 0 /\ raise_exception /\ blocking

\* audit(snapshot, start, end, latest, mapping, raise_exception, is_dev)
audit ==
    \E is_dev \in BOOLEAN, raise_exception \in BOOLEAN :
        /\ call.phase = "idle"
        /\ log' = <<>>
        /\ IF audit_skips(snapshot, is_dev)
           THEN /\ call' = [Idle EXCEPT !.op = "audit", !.phase = "done"]
                /\ outcome' = "results"
                /\ au' = [NoAudit EXCEPT !.pc = "done", !.is_dev = is_dev,
                                         !.raise_exception = raise_exception]
           ELSE /\ call' = [Idle EXCEPT !.op = "audit", !.phase = "audit"]
                /\ outcome' = ""
                /\ au' = [NoAudit EXCEPT
                            !.pc = "loop", !.is_dev = is_dev,
                            !.raise_exception = raise_exception,
                            !.audits = render_audit_queries(snapshot)]
        /\ UNCHANGED <<ddl_concurrent_tasks, objects, tasks, evalVars, ld>>

\* count, *_ = self.adapter.fetchone(select("COUNT(*)").from_(query)); then
\* raise AuditError, or log a warning, and results.append(AuditResult(...))
audit_fetchone ==
    \E count \in 0..MaxCount :
        LET a == Head(au.audits)
        IN  /\ call.phase = "audit"
            /\ au.pc = "loop"
            /\ au.audits # <<>>
            /\ log' = Append(log, <<"fetchone", AuditQuery(a),
                                    Len(au.results), count>>)
            /\ IF audit_raises(count, au.raise_exception, a.blocking)
               THEN /\ call' = [call EXCEPT !.phase = "done",
                                            !.error = "AuditError"]
                    /\ outcome' = "AuditError"
                    /\ au' = [au EXCEPT !.pc = "done",
                                        !.error = <<a.name, count>>]
               ELSE /\ au' = [au EXCEPT
                                !.audits = Tail(@),
                                !.results = Append(@, <<a.name, count>>)]
                    /\ UNCHANGED <<call, outcome>>
            /\ UNCHANGED <<ddl_concurrent_tasks, objects, tasks, evalVars, ld>>

\* return results
audit_returns ==
    /\ call.phase = "audit"
    /\ au.pc = "loop"
    /\ au.audits = <<>>
    /\ call' = [call EXCEPT !.phase = "done"]
    /\ outcome' = "results"
    /\ au' = [au EXCEPT !.pc = "done"]
    /\ UNCHANGED <<ddl_concurrent_tasks, objects, tasks, log, evalVars, ld>>

\* The engine as audit finds it: the table of the snapshot exists.
InitAudit ==
    /\ ddl_concurrent_tasks = 1
    /\ snapshot \in AuditSnapshots
    /\ supports_partitions = FALSE
    /\ objects = [n \in PhysNames |->
                    IF n \in {table_name(snapshot, d) : d \in BOOLEAN}
                    THEN TableOf(snapshot.columns) ELSE Absent]
    /\ rows = [n \in EvalNames |-> {}]
    /\ call = Idle
    /\ tasks = [id \in SnapshotIds |-> NoTask]
    /\ log = <<>>
    /\ outcome = ""
    /\ ev = NoEval
    /\ au = NoAudit
    /\ ld = NoLoad

NextAudit ==
    \/ audit
    \/ audit_fetchone
    \/ audit_returns

SpecAudit == InitAudit /\ [][NextAudit]_vars

\* ------------------------------------------- create and migrate of a plan

\* The columns the live table of model "a" can have when a plan is applied:
\* those of S1, or those a migration of an earlier fingerprint left.
LiveSchemas ==
    {<< <<"x", "int">> >>,
     << <<"x", "int">>, <<"z", "int">> >>,
     << <<"z", "int">>, <<"y", "int">> >>}

\* The target snapshots of a plan: a model built anew (S1), a model whose
\* version is reused (S2), its view child (S5), an embedded model (S4).
PlanIds == {"S1", "S2", "S4", "S5"}

\* create(target_snapshots, snapshots) with the snapshots of a plan
create_targets ==
    \E targets \in SUBSET PlanIds, f \in 0..MaxFaults :
        Begin("create", targets, FALSE, f)

\* migrate(target_snapshots, snapshots) with the snapshots of a plan
migrate_targets ==
    \E targets \in SUBSET PlanIds, f \in 0..MaxFaults :
        Begin("migrate", targets, FALSE, f)

migrate_again == Again("migrate")

\* The engine as a plan finds it: empty, or holding the live table of "a".
InitPlan ==
    /\ ddl_concurrent_tasks \in 1..MaxTasks
    /\ \E live \in {Absent} \cup {TableOf(c) : c \in LiveSchemas} :
          objects = [n \in PhysNames |->
                        IF n = table_name(Snap("S1"), FALSE) THEN live
                        ELSE Absent]
    /\ call = Idle
    /\ tasks = [id \in SnapshotIds |-> NoTask]
    /\ log = <<>>
    /\ outcome = ""
    /\ supports_partitions = FALSE
    /\ rows = [n \in EvalNames |-> {}]
    /\ snapshot = Snap("S1")
    /\ ev = NoEval
    /\ au = NoAudit
    /\ ld = NoLoad

NextPlan ==
    \/ create_targets
    \/ migrate_targets
    \/ migrate_again
    \/ \E id \in SnapshotIds : Dispatch(id)
    \/ \E id \in SnapshotIds : create_create_schema(id)
    \/ \E id \in SnapshotIds : create_create_view(id)
    \/ \E id \in SnapshotIds : create_create_table(id)
    \/ \E id \in SnapshotIds : migrate_columns_target(id)
    \/ \E id \in SnapshotIds : migrate_columns_source(id)
    \/ \E id \in SnapshotIds : migrate_alter_table(id)
    \/ \E id \in SnapshotIds : adapter_raises(id)
    \/ fanout_ends
    \/ context_exit
    \/ returns

SpecPlan == InitPlan /\ [][NextPlan]_vars

Next ==
    \/ promote
    \/ demote
    \/ create
    \/ migrate
    \/ cleanup
    \/ demote_again
    \/ recycle
    \/ close
    \/ \E id \in SnapshotIds : Dispatch(id)
    \/ \E id \in SnapshotIds : promote_create_schema(id)
    \/ \E id \in SnapshotIds : promote_table_exists(id)
    \/ \E id \in SnapshotIds : promote_create_view(id)
    \/ \E id \in SnapshotIds : promote_drop_view(id)
    \/ \E id \in SnapshotIds : demote_table_exists(id)
    \/ \E id \in SnapshotIds : demote_drop_view(id)
    \/ \E id \in SnapshotIds : create_create_schema(id)
    \/ \E id \in SnapshotIds : create_create_view(id)
    \/ \E id \in SnapshotIds : create_create_table(id)
    \/ \E id \in SnapshotIds : migrate_columns_target(id)
    \/ \E id \in SnapshotIds : migrate_columns_source(id)
    \/ \E id \in SnapshotIds : migrate_alter_table(id)
    \/ \E id \in SnapshotIds : cleanup_table_exists(id)
    \/ \E id \in SnapshotIds : cleanup_drop_table(id)
    \/ \E id \in SnapshotIds : cleanup_drop_view(id)
    \/ \E id \in SnapshotIds : adapter_raises(id)
    \/ fanout_ends
    \/ context_exit
    \/ returns

Spec == Init /\ [][Next]_vars

\* ======================================================= checked properties

FanOutOps == {"promote", "demote", "create", "migrate", "cleanup"}

Drops == {"drop_table", "drop_view"}

\* The positions of the log holding a call of snapshot id among the calls cs.
CallsOf(id, cs) == {i \in DOMAIN log : log[i][3] = id /\ log[i][1] \in cs}

Last(s) == s[Len(s)]

\* C1: Whenever _promote_snapshot returns for a snapshot, the environment's
\* view of that snapshot is SELECT * FROM its permanent table exactly when
\* table_exists reported that table; when it did not, the view is gone, the
\* call promote just made is drop_view and it made no create_view.
C1_PromoteViewIffTableExists ==
    [][\A id \in SnapshotIds :
        (/\ call.op = "promote"
         /\ tasks[id].pc \in {"create_view", "drop_view"}
         /\ tasks'[id].pc = "done")
        => LET vn == <<Environment, Snap(id).name, 0>>
               tn == <<"perm", Snap(id).name, Snap(id).version>>
               reported == \E i \in DOMAIN log :
                              log[i] = <<"table_exists", tn, id, "true">>
           IN  /\ reported <=> objects'[vn] = ViewOf(tn)
               /\ reported <=> Last(log') = <<"create_view", vn, id, "ok">>
               /\ ~reported =>
                    /\ objects'[vn] = Absent
                    /\ Last(log') = <<"drop_view", vn, id, "ok">>
                    /\ \A i \in DOMAIN log' :
                          log'[i][3] = id => log'[i][1] # "create_view"]_vars

\* C1 witness: one promote has dropped the view of a snapshot whose table is
\* missing and pointed the view of another at its existing table.
C1_Witness ==
    /\ call.op = "promote"
    /\ tasks["S1"].pc = "done"
    /\ tasks["S3"].pc = "done"
    /\ objects[<<"perm", "a", 1>>].kind = "none"
    /\ objects[<<Environment, "a", 0>>] = Absent
    /\ objects[<<Environment, "b", 0>>] = ViewOf(<<"perm", "b", 3>>)
    /\ CallsOf("S1", {"drop_view"}) # {}

\* C2: In cleanup, no drop for a parent is issued before its child in the
\* collection has finished, with every drop of the child issued, whatever
\* ddl_concurrent_tasks is.
C2_CleanupChildrenFirst ==
    call.op = "cleanup" =>
        \A c \in call.targets : \A p \in Snap(c).parents \cap call.targets :
            \A i \in CallsOf(p, Drops) :
                /\ tasks[c].pc = "done"
                /\ \A j \in CallsOf(c, Drops \cup {"table_exists"}) : j < i

\* C2 witness: with two workers, cleanup has dropped the child's view and
\* then the parent's table.
C2_Witness ==
    /\ call.op = "cleanup"
    /\ ddl_concurrent_tasks > 1
    /\ call.targets = {"S1", "S2", "S3"}
    /\ CallsOf("S3", Drops) # {}
    /\ CallsOf("S1", {"drop_table"}) # {}

\* C3: A finished cleanup of a snapshot has tried its permanent table name,
\* and its dev table name as well exactly when version differs from
\* fingerprint: each name tried once, in that order, dropped when it was
\* there.  With version = fingerprint one table is dropped, never two.
C3_CleanupTableNames ==
    \A id \in SnapshotIds :
        (call.op = "cleanup" /\ tasks[id].pc = "done") =>
            LET s == Snap(id)
                perm == <<"perm", s.name, s.version>>
                dev == <<"temp", s.name, s.fingerprint>>
                tried == CallsOf(id, {"table_exists"})
                dropped == CallsOf(id, {"drop_table"})
                triedNames == {log[i][2] : i \in tried}
            IN  /\ triedNames =
                     IF s.version # s.fingerprint THEN {perm, dev} ELSE {perm}
                /\ Cardinality(tried) = Cardinality(triedNames)
                /\ \A i \in tried, j \in tried :
                      (log[i][2] = perm /\ log[j][2] = dev) => i < j
                /\ \A i \in tried :
                      log[i][4] = "true" <=>
                          \E j \in dropped : j > i /\ log[j][2] = log[i][2]
                /\ Cardinality(dropped) <= Cardinality(tried)
                /\ s.version = s.fingerprint =>
                      /\ Cardinality(dropped) <= 1
                      /\ \A i \in dropped : log[i][2] = perm

\* C3 witness: one cleanup has dropped the single table of S1 (version =
\* fingerprint) and both tables of S2 (version # fingerprint).
C3_Witness ==
    /\ call.op = "cleanup"
    /\ tasks["S1"].pc = "done"
    /\ tasks["S2"].pc = "done"
    /\ Cardinality(CallsOf("S1", {"drop_table"})) = 1
    /\ Cardinality(CallsOf("S2", {"drop_table"})) = 2

\* C4: When a fan-out call has ended, adapter.recycle was called exactly
\* once, after every call of the fan-out, whether the fan-out raised or not;
\* the caller gets the fan-out's own error (or a normal return), also when
\* adapter.recycle failed.  Before the fan-out ends there is no recycle.
C4_RecycleOnceOnEveryExit ==
    call.op \in FanOutOps =>
        LET rec == {i \in DOMAIN log : log[i][1] = "recycle"}
        IN  /\ call.phase \in {"fanout", "exit"} => rec = {}
            /\ call.phase = "done" =>
                  /\ rec = {Len(log)}
                  /\ ActiveIds = {}
                  /\ outcome = IF call.error # "" THEN call.error ELSE "ok"
                  /\ outcome # "RecycleError"

\* C4 witness: a migrate whose fan-out raised has ended with the fan-out's
\* error although adapter.recycle failed too.
C4_Witness ==
    /\ call.op = "migrate"
    /\ call.phase = "done"
    /\ call.error = "AdapterError"
    /\ outcome = "AdapterError"
    /\ Last(log) = <<"recycle", NoDef, "", "raised">>

\* C5: recycle and close return normally to their caller, also when the
\* adapter's recycle or close raises.
C5_RecycleCloseNeverRaise ==
    (call.op \in {"recycle", "close"} /\ call.phase = "done") =>
        outcome = "ok"

\* C5 witness: close has returned although adapter.close raised.
C5_Witness ==
    /\ call.op = "close"
    /\ call.phase = "done"
    /\ log = <<<<"close", NoDef, "", "raised">>>>
    /\ outcome = "ok"

\* C6: Within one fan-out no two workers are at a write (create, alter,
\* replace, drop) of the same table or view at the same time.
C6_NoConcurrentWrites ==
    \A a \in ActiveIds, b \in ActiveIds :
        (/\ a # b
         /\ tasks[a].pc \in WriteCalls
         /\ tasks[b].pc \in WriteCalls) => Target(a) # Target(b)

Writes ==
    {"create_view", "insert_append", "insert_overwrite", "replace_query",
     "delete_insert_query"}

\* The positions of the log holding a write call made for batch k.
WritesAt(k) == {i \in DOMAIN log : log[i][1] \in Writes /\ log[i][3] = k}

WriteLog == LET IsWrite(e) == e[1] \in Writes IN SelectSeq(log, IsWrite)

\* The table evaluate works on: the snapshot evaluated has version 1 and
\* fingerprint 2.
EvalTable == IF ev.is_dev THEN <<"temp", "e", 2>> ELSE <<"perm", "e", 1>>

\* The first batch of the running (or ended) evaluate has been applied.
FirstBatchApplied ==
    /\ call.op = "evaluate"
    /\ ev.pc # "none"
    /\ ev.limit = 0
    /\ \/ snapshot.is_sql /\ ev.pc = "done"
       \/ ~snapshot.is_sql /\ ev.index >= 1

\* C7: For a snapshot that is neither a view nor full, applying batch 0
\* issues exactly one write: insert_overwrite when the adapter supports
\* partitions; else, for incremental by time range, delete_insert_query
\* where the time column is BETWEEN the values of start and end; else
\* insert_append.
C7_FirstBatchStrategy ==
    (call.op = "evaluate" /\ ~is_view_kind(snapshot) /\ ~is_full_kind(snapshot))
    => /\ Cardinality(WritesAt(0)) = IF FirstBatchApplied THEN 1 ELSE 0
       /\ \A i \in WritesAt(0) :
            log[i] =
              IF supports_partitions
              THEN <<"insert_overwrite", EvalTable, 0, <<>> >>
              ELSE IF snapshot.kind = "INCREMENTAL_BY_TIME_RANGE"
              THEN <<"delete_insert_query", EvalTable, 0,
                     <<20240100 + ev.start, 20240100 + ev.end>> >>
              ELSE <<"insert_append", EvalTable, 0, <<>> >>

\* C7 witness: without partition support, an incremental-by-time-range
\* snapshot evaluated over days 1..2 got a delete-insert between them.
C7_Witness ==
    /\ call.phase = "done"
    /\ snapshot.kind = "INCREMENTAL_BY_TIME_RANGE"
    /\ ~supports_partitions
    /\ ev.start = 1
    /\ ev.end = 2
    /\ WriteLog = << <<"delete_insert_query", EvalTable, 0,
                       <<20240101, 20240102>> >> >>

\* C8: Evaluating a view snapshot writes only for batch 0, with create_view;
\* a batch of index > 0 ends the call with ConfigError and writes nothing.
C8_ViewSingleBatch ==
    (call.op = "evaluate" /\ is_view_kind(snapshot)) =>
        /\ WriteLog = IF FirstBatchApplied
                      THEN << <<"create_view", EvalTable, 0, <<>> >> >>
                      ELSE <<>>
        /\ (call.phase = "done" /\ ~snapshot.is_sql /\ ev.limit = 0
                /\ ev.batches > 1) => outcome = "ConfigError"
        /\ outcome = "ConfigError" => ev.index = 1
        /\ FirstBatchApplied =>
              objects[EvalTable] = ViewOf(<<"query", "e", 2>>)

\* C8 witness: a procedural view model produced a second batch and the call
\* ended with ConfigError after the single create_view.
C8_Witness ==
    /\ call.phase = "done"
    /\ is_view_kind(snapshot)
    /\ outcome = "ConfigError"
    /\ Len(WriteLog) = 1

\* C9: In the evaluation of a snapshot that is not a view, only batch 0 is
\* written with replace_query, insert_overwrite or delete_insert_query;
\* every later batch is written with insert_append, the batches in order,
\* and the rows of every batch already applied stay in the table.
C9_LaterBatchesAppend ==
    (call.op = "evaluate" /\ ev.pc # "none" /\ ~is_view_kind(snapshot)) =>
        /\ \A k \in DOMAIN WriteLog :
              /\ WriteLog[k][3] = k - 1
              /\ k > 1 => WriteLog[k] = <<"insert_append", EvalTable, k - 1, <<>> >>
        /\ is_full_kind(snapshot) /\ FirstBatchApplied =>
              WriteLog[1] = <<"replace_query", EvalTable, 0, <<>> >>
        /\ ev.limit = 0 /\ ~snapshot.is_sql => Len(WriteLog) = ev.index
        /\ \A k \in 1..Len(WriteLog) :
              {<<k - 1, 20240100 + d>> : d \in ev.start..ev.end}
                  \subseteq rows[EvalTable]

\* C9 witness: a procedural full model has written two batches, the first
\* with replace_query and the second with insert_append.
C9_Witness ==
    /\ call.phase = "done"
    /\ is_full_kind(snapshot)
    /\ ~snapshot.is_sql
    /\ supports_partitions
    /\ Len(WriteLog) = 2
    /\ WriteLog[1][1] = "replace_query"
    /\ WriteLog[2][1] = "insert_append"

\* C10 as stated: a step of an evaluate with limit > 0 issues no write and
\* leaves the adapter's tables and views unchanged.
C10_PreviewChangesNothing ==
    [][(call.phase = "eval" /\ ev.limit > 0) =>
          /\ objects' = objects
          /\ rows' = rows
          /\ WriteLog' = WriteLog]_vars

\* C10 as amended: an evaluate with limit > 0 issues none of the write calls,
\* never applies a batch and changes no rows; the only steps of it that
\* change an object of the adapter are the model's own statements, which it
\* executes before it looks at the limit.
C10_PreviewOnlyRunsStatements ==
    [][(call.phase = "eval" /\ ev.limit > 0) =>
          /\ rows' = rows
          /\ WriteLog' = <<>>
          /\ ev'.index = 0
          /\ objects' # objects =>
                /\ ev.pc = "statements"
                /\ Len(log') = Len(log) + 1
                /\ Last(log') = <<"execute", NoDef, 0, <<Head(ev.stmts)>> >>
          /\ call'.phase = "done" => outcome' \in {"DataFrame", "None"}]_vars

\* C10 witness: the preview of a procedural model with two batches returned
\* a data frame, after running the model's CREATE TABLE statement.
C10_Witness ==
    /\ call.phase = "done"
    /\ ev.limit > 0
    /\ ~snapshot.is_sql
    /\ ev.batches = 2
    /\ outcome = "DataFrame"
    /\ objects[ScratchName].kind = "table"
    /\ log = << <<"execute", NoDef, 0, <<"CREATE TABLE">> >>,
                <<"begin", NoDef, 0, <<>> >>, <<"commit", NoDef, 0, <<>> >> >>


\* The audits of the snapshot that are not skipped: the k-th fetchone of an
\* audit call is for the k-th of them.
AuditsRun == LET Runs(a) == ~a.skip IN SelectSeq(snapshot.audits, Runs)

\* The k-th audit query of the call found rows, for a blocking audit, in a
\* call that raises.
FailsAt(k) ==
    /\ log[k][4] > 0
    /\ au.raise_exception
    /\ AuditsRun[k].blocking

\* C11: An audit query that finds rows ends the audit call with an AuditError
\* carrying the audit's name and the count exactly when the audit is blocking
\* and raise_exception is true; in every other case (zero count, blocking =
\* false, raise_exception = false) the call goes on and an AuditResult with
\* the audit and that count is collected, and a call that returns gives one
\* result per query it ran.
C11_AuditErrorOnlyWhenBlocking ==
    call.op = "audit" =>
        /\ \A k \in DOMAIN log :
              /\ log[k][2] = <<"audit", AuditsRun[k].name, 0>>
              /\ FailsAt(k) =>
                    /\ k = Len(log)
                    /\ call.phase = "done"
                    /\ outcome = "AuditError"
                    /\ au.error = <<AuditsRun[k].name, log[k][4]>>
              /\ ~FailsAt(k) =>
                    /\ k \in DOMAIN au.results
                    /\ au.results[k] = <<AuditsRun[k].name, log[k][4]>>
        /\ outcome = "AuditError" => log # <<>> /\ FailsAt(Len(log))
        /\ outcome = "results" =>
              /\ Len(au.results) = Len(log)
              /\ Len(log) \in {0, Len(AuditsRun)}

\* C11 witness: with raise_exception, a non-blocking audit that found 3 rows
\* was collected as a result, and then a blocking audit that found 3 rows
\* ended the call with an AuditError naming it.
C11_Witness ==
    /\ call.op = "audit"
    /\ call.phase = "done"
    /\ au.raise_exception
    /\ outcome = "AuditError"
    /\ au.results = << <<"not_null", 3>> >>
    /\ au.error = <<"unique", 3>>

\* C12: audit on a snapshot whose table for the given is_dev is a dev table
\* (is_dev, and the fingerprint is not the version) returns an empty list,
\* having rendered no audit and sent no query to the adapter.
C12_DevTableNotAudited ==
    (call.op = "audit" /\ au.is_dev /\ snapshot.fingerprint # snapshot.version)
    => /\ call.phase = "done"
       /\ outcome = "results"
       /\ au.results = <<>>
       /\ au.audits = <<>>
       /\ log = <<>>

\* C12 witness: audit with is_dev returned for a snapshot that reuses a
\* version and carries two audits that are not skipped.
C12_Witness ==
    /\ call.op = "audit"
    /\ call.phase = "done"
    /\ au.is_dev
    /\ snapshot.fingerprint = 2
    /\ Len(AuditsRun) = 2
    /\ outcome = "results"
    /\ log = <<>>


\* C13: demote drops the view of a snapshot when table_exists reports it and
\* issues no drop_view when it does not; a demote that returned normally
\* leaves no view of its snapshots.  A second demote of the same snapshots,
\* right after the first returned, issues no drop_view, raises no error and
\* leaves every object of the adapter as the first demote left it.
C13_DemoteIdempotent ==
    [][call'.op = "demote" =>
          /\ \A id \in call'.targets :
                LET vn == <<Environment, Snap(id).name, 0>>
                    found == \E i \in DOMAIN log' :
                                log'[i] = <<"table_exists", vn, id, "true">>
                    drops == {i \in DOMAIN log' :
                                log'[i][1] = "drop_view" /\ log'[i][3] = id}
                IN  /\ ~found => drops = {}
                    /\ tasks'[id].pc = "done" =>
                          Cardinality(drops) = IF found THEN 1 ELSE 0
                    /\ (call'.phase = "done" /\ outcome' = "ok") =>
                          objects'[vn] = Absent
          /\ call'.first # {} =>
                /\ objects' = objects
                /\ \A i \in DOMAIN log' : log'[i][1] # "drop_view"
                /\ call'.error = ""
                /\ call'.phase = "done" => outcome' = "ok"]_vars

\* C13 witness: a demote dropped the view of S1, and the demote of the same
\* snapshots made right after found no view and returned normally.
C13_Witness ==
    /\ call.op = "demote"
    /\ call.phase = "done"
    /\ outcome = "ok"
    /\ <<"drop_view", <<Environment, "a", 0>>, "S1", "ok">> \in call.first
    /\ \E i \in DOMAIN log :
          log[i] = <<"table_exists", <<Environment, "a", 0>>, "S1", "false">>


\* C14: In a migrate made right after a migrate of the same snapshots
\* returned normally, every delta set computed is empty, every materialized
\* snapshot still gets its alter_table, and no object of the adapter changes.
C14_MigrateIdempotent ==
    [][(call'.op = "migrate" /\ call'.first # {}) =>
          /\ objects' = objects
          /\ \A id \in call'.targets :
                /\ tasks'[id].pc \in {"alter_table", "done"} =>
                      tasks'[id].deltas = <<>>
                /\ (tasks'[id].pc = "done"
                        /\ Snap(id).kind \notin {"VIEW", "EMBEDDED"}) =>
                      \E i \in DOMAIN log' :
                          log'[i] = <<"alter_table",
                                      <<"perm", Snap(id).name, Snap(id).version>>,
                                      id, "ok">>]_vars

\* C14 witness: the live table of "a" had come to the columns of S2's dev
\* table, and the second of two migrates of S2 altered it with no delta.
C14_Witness ==
    /\ call.op = "migrate"
    /\ call.phase = "done"
    /\ "S2" \in call.targets
    /\ <<"alter_table", <<"perm", "a", 1>>, "S2", "ok">> \in call.first
    /\ \E i \in DOMAIN log :
          log[i] = <<"alter_table", <<"perm", "a", 1>>, "S2", "ok">>
    /\ objects[<<"perm", "a", 1>>].cols = << <<"y", "int">>, <<"x", "int">> >>


\* The name create must build a snapshot into, and the name a parent of it
\* must be read from: the permanent name for a new version; for a reused
\* version the dev name, of the snapshot and of every parent that has one.
BuildName(s) ==
    IF s.fingerprint = s.version
    THEN <<"perm", s.name, s.version>>
    ELSE <<"temp", s.name, s.fingerprint>>

ParentName(s, p) ==
    IF s.fingerprint # s.version /\ p.fingerprint # p.version
    THEN <<"temp", p.name, p.fingerprint>>
    ELSE <<"perm", p.name, p.version>>

\* C15: Every create_table and create_view of create is issued against the
\* permanent name of a new-version snapshot and against the dev name of a
\* reused-version snapshot, never against the permanent name of the latter;
\* no step of the task of a reused-version snapshot changes the object under
\* its permanent name; and the parents' names given to the model's query are
\* resolved with the same dev / permanent choice as the snapshot's own name.
C15_CreateBuildsIntoOwnTable ==
    [][call'.op = "create" =>
          /\ \A i \in DOMAIN log' :
                log'[i][1] \in {"create_table", "create_view"} =>
                    /\ log'[i][2] = BuildName(Snap(log'[i][3]))
                    /\ Snap(log'[i][3]).fingerprint # Snap(log'[i][3]).version
                          => log'[i][2][1] # "perm"
          /\ \A id \in call'.targets :
                LET s == Snap(id)
                IN  /\ (s.fingerprint # s.version
                            /\ tasks'[id].pc # tasks[id].pc) =>
                          objects'[<<"perm", s.name, s.version>>]
                              = objects[<<"perm", s.name, s.version>>]
                    /\ tasks'[id].pc \in {"create_table", "create_view"} =>
                          tasks'[id].mapping =
                              {<<Snap(p).name, ParentName(s, Snap(p))>> :
                                  p \in s.parents}]_vars

\* C15 witness: one create built S1 into its permanent table, S2 into its
\* dev table beside it, and S5 into its dev view, which reads S2's dev table.
C15_Witness ==
    /\ call.op = "create"
    /\ call.phase = "done"
    /\ outcome = "ok"
    /\ \E i \in DOMAIN log :
          log[i] = <<"create_table", <<"perm", "a", 1>>, "S1", "ok">>
    /\ \E i \in DOMAIN log :
          log[i] = <<"create_table", <<"temp", "a", 2>>, "S2", "ok">>
    /\ \E i \in DOMAIN log :
          log[i] = <<"create_view", <<"temp", "b", 5>>, "S5", "ok">>
    /\ tasks["S5"].mapping = {<<"a", <<"temp", "a", 2>>>>}
    /\ objects[<<"perm", "a", 1>>].cols = << <<"x", "int">> >>
    /\ objects[<<"temp", "a", 2>>].cols = << <<"x", "int">>, <<"y", "text">> >>


Names(cols) == {cols[i][1] : i \in DOMAIN cols}

Columns(cols) == {cols[i] : i \in DOMAIN cols}

\* The ADD deltas of a delta sequence as (name, type) pairs, and the names
\* of its DROP deltas.
Added(deltas) ==
    {<<deltas[i][2], deltas[i][3]>> :
        i \in {j \in DOMAIN deltas : deltas[j][1] = "ADD"}}

Dropped(deltas) ==
    {deltas[i][2] : i \in {j \in DOMAIN deltas : deltas[j][1] = "DROP"}}

\* C20: For a materialized snapshot, the deltas migrate computes add exactly
\* the columns of the dev table whose names the live table lacks, with the
\* dev table's types, and drop exactly the names of the live table the dev
\* table lacks; the one alter_table it issues is on the permanent table and
\* removes the dropped names, appends the added columns and leaves every
\* other column as it was.  A migrate that finished for a snapshot made
\* three adapter calls when it is materialized (columns of the live table,
\* columns of the dev table, alter_table) and none when it is a view or
\* embedded.
C20_MigrateAltersLiveTable ==
    [][call'.op = "migrate" =>
          \A id \in call'.targets :
            LET s == Snap(id)
                live == <<"perm", s.name, s.version>>
                dev == IF s.fingerprint = s.version THEN live
                       ELSE <<"temp", s.name, s.fingerprint>>
                mine == SelectSeq(log', LAMBDA e : e[3] = id)
            IN  /\ (tasks[id].pc = "columns_source"
                        /\ tasks'[id].pc = "alter_table") =>
                      LET d == tasks'[id].deltas
                          liveCols == tasks[id].cols
                          devCols == objects[dev].cols
                      IN  /\ Added(d) = {c \in Columns(devCols) :
                                            c[1] \notin Names(liveCols)}
                          /\ Dropped(d) = Names(liveCols) \ Names(devCols)
                          /\ Len(d) = Cardinality(Added(d))
                                        + Cardinality(Dropped(d))
                /\ (tasks[id].pc = "alter_table" /\ tasks'[id].pc = "done") =>
                      LET d == tasks[id].deltas
                          Stays(c) == c[1] \notin Dropped(d)
                          old == objects[live].cols
                          new == objects'[live].cols
                      IN  /\ SubSeq(new, 1, Len(SelectSeq(old, Stays)))
                                = SelectSeq(old, Stays)
                          /\ Columns(new) =
                                Columns(SelectSeq(old, Stays)) \cup Added(d)
                          /\ \A n \in PhysNames \ {live} :
                                objects'[n] = objects[n]
                /\ tasks'[id].pc = "done" =>
                      IF s.kind \in {"VIEW", "EMBEDDED"}
                      THEN mine = <<>>
                      ELSE mine = << <<"columns", live, id, "ok">>,
                                     <<"columns", dev, id, "ok">>,
                                     <<"alter_table", live, id, "ok">> >>]_vars

\* C20 witness: one migrate of S2, S4 and S5 over a live table with columns
\* z and y (an int) dropped z and added x, kept y as it was, and made no
\* call for the embedded S4 and the view S5.
C20_Witness ==
    /\ call.op = "migrate"
    /\ call.first = {}
    /\ call.targets = {"S2", "S4", "S5"}
    /\ call.phase = "done"
    /\ outcome = "ok"
    /\ tasks["S2"].cols = << <<"z", "int">>, <<"y", "int">> >>
    /\ tasks["S2"].deltas = << <<"ADD", "x", "int">>, <<"DROP", "z", "int">> >>
    /\ objects[<<"perm", "a", 1>>].cols = << <<"y", "int">>, <<"x", "int">> >>
    /\ Len(log) = 4


\* The fields the header of the first statement gives, and the text of the
\* value it gives to one of them.
HeaderFields == {ld.expressions[1].props[i][1] :
                    i \in DOMAIN ld.expressions[1].props}

HeaderText(field) ==
    LET props == ld.expressions[1].props
    IN  props[CHOOSE i \in DOMAIN props : props[i][1] = field][2][2]

\* C16: Audit.load raises a config error that carries the path, and returns
\* no audit, for a block of fewer than two statements, a block whose first
\* statement is not an AUDIT header, a header without name or without model,
\* a header with a field that is none of name, model, dialect, skip and
\* blocking, a last statement that is not a query, and a query that selects
\* nothing.
C16_LoadRejectsMalformedBlocks ==
    (call.op = "load" /\ call.phase = "done") =>
        LET e == ld.expressions
            n == Len(e)
            malformed ==
                \/ n < 2
                \/ /\ n >= 2
                   /\ \/ e[1].type # "Audit"
                      \/ "name" \notin HeaderFields
                      \/ "model" \notin HeaderFields
                      \/ HeaderFields \ {"name", "model", "dialect", "skip",
                                         "blocking"} # {}
                      \/ e[n].type \notin {"Select", "Union"}
                      \/ e[n].selects = 0
        IN  malformed =>
                /\ outcome = "AuditConfigError"
                /\ ld.error[1] = "AuditConfigError"
                /\ ld.error[3] = ld.path
                /\ ld.yielded = <<>>

\* C16 witness: load raised for a block whose only fault is the field owner
\* in its header, and the error names the file b.sql.
C16_Witness ==
    /\ call.op = "load"
    /\ call.phase = "done"
    /\ Len(ld.expressions) = 3
    /\ HeaderFields = {"name", "model", "owner"}
    /\ ld.expressions[3].type = "Select"
    /\ ld.expressions[3].selects = 1
    /\ outcome = "AuditConfigError"
    /\ ld.error = <<"AuditConfigError", "Invalid extra fields", "audits/b.sql">>


\* The audit that a successful call of load returned.
LoadedAudit == ld.yielded[1]

\* The dialect load was given as default, as a string (None is no dialect).
DefaultDialect == IF ld.dialect = "None" THEN "" ELSE ld.dialect

\* C17: an audit loaded from a header that declares no dialect has the
\* default dialect passed to load, and a header that declares a dialect
\* overrides that default.
C17_HeaderDialectOverridesDefault ==
    (call.op = "load" /\ call.phase = "done" /\ outcome = "Audit") =>
        LoadedAudit.dialect =
            IF "dialect" \in HeaderFields
            THEN HeaderText("dialect")
            ELSE DefaultDialect


\* The spellings of false and no that differ only in the case of letters.
FalseTexts == {"false", "FALSE", "False", "no", "NO", "No"}

\* What the spec gives for a boolean header field: its default when the
\* header does not give it, false for false and no in any case of letters,
\* true for every other value.
ExpectedBool(field, default) ==
    IF field \in HeaderFields
    THEN HeaderText(field) \notin FalseTexts
    ELSE default

\* C18: in a loaded audit, skip and blocking are false when the header
\* gives them as false or no, whatever the case of the letters, true for
\* any other value, and skip is false and blocking is true when the header
\* does not give them.
C18_BooleanHeaderFields ==
    (call.op = "load" /\ call.phase = "done" /\ outcome = "Audit") =>
        /\ LoadedAudit.skip = ExpectedBool("skip", FALSE)
        /\ LoadedAudit.blocking = ExpectedBool("blocking", TRUE)

\* C18 witness: load returned an audit whose header gives blocking as NO
\* and no skip; the audit is neither blocking nor skipped.
C18_Witness ==
    /\ call.op = "load"
    /\ call.phase = "done"
    /\ outcome = "Audit"
    /\ "blocking" \in HeaderFields
    /\ HeaderText("blocking") = "NO"
    /\ "skip" \notin HeaderFields
    /\ LoadedAudit.blocking = FALSE
    /\ LoadedAudit.skip = FALSE


\* The positions of the AUDIT headers in the stream given to load_multiple,
\* the position of the i-th of them, and the position of the last statement
\* of the block a header opens.
HeaderPositions == {p \in DOMAIN ld.expressions : ld.expressions[p].type = "Audit"}

HeaderAt(i) ==
    CHOOSE p \in HeaderPositions :
        Cardinality({q \in HeaderPositions : q <= p}) = i

BlockEnd(p) ==
    LET later == {q \in HeaderPositions : q > p}
    IN  IF later = {} THEN Len(ld.expressions)
        ELSE (CHOOSE q \in later : \A r \in later : q <= r) - 1

\* A block is valid when it has a header that gives name and model and no
\* unknown field, and ends in a query that selects something.
BlockValid(p) ==
    LET fields == {ld.expressions[p].props[i][1] :
                      i \in DOMAIN ld.expressions[p].props}
        last == ld.expressions[BlockEnd(p)]
    IN  /\ BlockEnd(p) > p
        /\ {"name", "model"} \subseteq fields
        /\ fields \subseteq {"name", "model", "dialect", "skip", "blocking"}
        /\ last.type \in {"Select", "Union"}
        /\ last.selects > 0

\* The positions in the stream of the statements the i-th audit was made of.
StatementsOf(i) ==
    {HeaderAt(i), ld.yielded[i].query.id}
        \cup {ld.yielded[i].expressions[j].id :
                 j \in DOMAIN ld.yielded[i].expressions}

\* C19: for a stream that begins with an AUDIT header and has only valid
\* blocks, load_multiple yields one audit per header, in the order of the
\* headers, each made of exactly the statements from its header up to the
\* next header or the end of the stream, so that no statement is lost,
\* duplicated or shared between two audits.
C19_LoadMultipleSplitsAtHeaders ==
    (/\ call.op = "load_multiple"
     /\ call.phase = "done"
     /\ ld.expressions # <<>>
     /\ ld.expressions[1].type = "Audit"
     /\ \A p \in HeaderPositions : BlockValid(p)) =>
        /\ outcome = "audits"
        /\ Len(ld.yielded) = Cardinality(HeaderPositions)
        /\ \A i \in DOMAIN ld.yielded :
              /\ ld.yielded[i].name = AuditNameAt(HeaderAt(i))
              /\ ld.yielded[i].expressions =
                     SubSeq(ld.expressions, HeaderAt(i) + 1,
                            BlockEnd(HeaderAt(i)) - 1)
              /\ ld.yielded[i].query = ld.expressions[BlockEnd(HeaderAt(i))]
        /\ \A p \in DOMAIN ld.expressions :
              Cardinality({i \in DOMAIN ld.yielded : p \in StatementsOf(i)}) = 1

\* C19 witness: a stream of a header, a macro definition, a query, a second
\* header and a second query was split into two audits, the first holding
\* the macro definition and the second none.
C19_Witness ==
    /\ call.op = "load_multiple"
    /\ call.phase = "done"
    /\ outcome = "audits"
    /\ Len(ld.expressions) = 5
    /\ HeaderPositions = {1, 4}
    /\ Len(ld.yielded) = 2
    /\ ld.yielded[1].name = "a1"
    /\ ld.yielded[1].expressions = <<ld.expressions[2]>>
    /\ ld.yielded[1].query = ld.expressions[3]
    /\ ld.yielded[2].name = "a4"
    /\ ld.yielded[2].expressions = <<>>
    /\ ld.yielded[2].query = ld.expressions[5]


\* ------------------------------------------------- cleanup of expired snapshots

\* The snapshots a janitor run expires: a table model built anew (S1), a
\* later fingerprint of it (S2), a view model (S3) and a later fingerprint of
\* the view model (S5), which has a permanent and a dev name.
ExpiredIds == {"S1", "S2", "S3", "S5"}

\* What create left under a physical name of a snapshot: a view for a model
\* of kind VIEW, a table for a materialized one.
Created(id) ==
    IF is_view_kind(Snap(id))
    THEN ViewOf(render_query(Snap(id)))
    ELSE TableOf(Snap(id).columns)

\* cleanup(target_snapshots) with expired snapshots
cleanup_targets ==
    \E targets \in SUBSET ExpiredIds, f \in 0..MaxFaults :
        Begin("cleanup", targets, FALSE, f)

\* The engine as the janitor finds it: under each physical name of an
\* expired snapshot, what create left there or nothing.
InitCleanup ==
    /\ ddl_concurrent_tasks \in 1..MaxTasks
    /\ \E present \in SUBSET {<<"S1", FALSE>>, <<"S2", TRUE>>,
                              <<"S3", FALSE>>, <<"S5", TRUE>>} :
          objects = [n \in PhysNames |->
                        IF \E p \in present :
                               n = table_name(Snap(p[1]), p[2])
                        THEN Created((CHOOSE p \in present :
                                         n = table_name(Snap(p[1]), p[2]))[1])
                        ELSE Absent]
    /\ call = Idle
    /\ tasks = [id \in SnapshotIds |-> NoTask]
    /\ log = <<>>
    /\ outcome = ""
    /\ supports_partitions = FALSE
    /\ rows = [n \in EvalNames |-> {}]
    /\ snapshot = Snap("S1")
    /\ ev = NoEval
    /\ au = NoAudit
    /\ ld = NoLoad

NextCleanup ==
    \/ cleanup_targets
    \/ \E id \in SnapshotIds : Dispatch(id)
    \/ \E id \in SnapshotIds : cleanup_table_exists(id)
    \/ \E id \in SnapshotIds : cleanup_drop_table(id)
    \/ \E id \in SnapshotIds : cleanup_drop_view(id)
    \/ \E id \in SnapshotIds : adapter_raises(id)
    \/ fanout_ends
    \/ context_exit
    \/ returns

SpecCleanup == InitCleanup /\ [][NextCleanup]_vars


\* The adapter calls of the current call that the task of one snapshot made,
\* in the order it made them.
LogOf(id) ==
    LET Mine(e) == e[3] = id
    IN  SelectSeq(log, Mine)

\* The table name _cleanup_snapshot goes to after the given one, or NoDef
\* when the given one is the snapshot's last.
NameAfter(id, tn) ==
    LET names == cleanup_table_names(Snap(id))
        k == CHOOSE i \in DOMAIN names : names[i] = tn
    IN  IF k < Len(names) THEN names[k + 1] ELSE NoDef

\* C21: in cleanup a drop_table that fails is followed by drop_view on the
\* same name and is no error of the snapshot; after a drop that succeeded,
\* as table or as view, the snapshot goes on to its next table name or is
\* done; so a cleanup in which no drop_view failed ends without error with
\* every table name of every snapshot looked at and nothing left under it.
C21_CleanupDropsViewAfterTable ==
    call.op = "cleanup" =>
        /\ \A id \in call.targets :
              LET l == LogOf(id)
              IN  \A i \in DOMAIN l :
                     /\ (l[i][1] = "drop_table" /\ l[i][4] = "raised") =>
                            IF i < Len(l)
                            THEN l[i + 1][1] = "drop_view"
                                 /\ l[i + 1][2] = l[i][2]
                            ELSE tasks[id].pc = "drop_view"
                                 /\ Head(tasks[id].names) = l[i][2]
                     /\ (l[i][1] \in {"drop_table", "drop_view"}
                            /\ l[i][4] = "ok") =>
                            IF NameAfter(id, l[i][2]) = NoDef
                            THEN i = Len(l) /\ tasks[id].pc = "done"
                            ELSE IF i < Len(l)
                            THEN l[i + 1][1] = "table_exists"
                                 /\ l[i + 1][2] = NameAfter(id, l[i][2])
                            ELSE tasks[id].pc = "table_exists"
                                 /\ Head(tasks[id].names) = NameAfter(id, l[i][2])
        /\ (/\ call.phase = "done"
            /\ \A i \in DOMAIN log :
                  ~(log[i][1] = "drop_view" /\ log[i][4] = "raised")) =>
                /\ outcome = "ok"
                /\ \A id \in call.targets :
                      /\ tasks[id].pc = "done"
                      /\ \A k \in DOMAIN cleanup_table_names(Snap(id)) :
                            LET tn == cleanup_table_names(Snap(id))[k]
                            IN  /\ \E i \in DOMAIN log :
                                      /\ log[i][1] = "table_exists"
                                      /\ log[i][2] = tn
                                      /\ log[i][3] = id
                                /\ objects[tn] = Absent

\* C21 witness: the cleanup of S5, whose permanent and dev names both held
\* a view, ended without error: drop_table failed and drop_view succeeded
\* on the permanent name, then the same on the dev name.
C21_Witness ==
    /\ call.op = "cleanup"
    /\ call.phase = "done"
    /\ outcome = "ok"
    /\ LogOf("S5") =
          << <<"table_exists", table_name(Snap("S5"), FALSE), "S5", "true">>,
             <<"drop_table", table_name(Snap("S5"), FALSE), "S5", "raised">>,
             <<"drop_view", table_name(Snap("S5"), FALSE), "S5", "ok">>,
             <<"table_exists", table_name(Snap("S5"), TRUE), "S5", "true">>,
             <<"drop_table", table_name(Snap("S5"), TRUE), "S5", "raised">>,
             <<"drop_view", table_name(Snap("S5"), TRUE), "S5", "ok">> >>
    /\ objects[table_name(Snap("S5"), FALSE)] = Absent
    /\ objects[table_name(Snap("S5"), TRUE)] = Absent


\* The queries of the call that found rows for a blocking audit.
BlockingFailures ==
    {k \in DOMAIN log : log[k][4] > 0 /\ AuditsRun[k].blocking}

\* C22: in an audit call with raise_exception the queries go to the adapter
\* in the order of the model's audits that are not skipped; the first query
\* that finds rows for a blocking audit is the last one of the call, which
\* ends with an AuditError and returns no results; a call where no query
\* did so runs every audit (none on a dev table) and returns the results.
C22_AuditStopsAtFirstBlockingFailure ==
    (call.op = "audit" /\ au.raise_exception) =>
        /\ Len(log) <= Len(AuditsRun)
        /\ \A k \in DOMAIN log :
              /\ log[k][2] = AuditQuery(AuditsRun[k])
              /\ log[k][3] = k - 1
        /\ BlockingFailures \subseteq {Len(log)}
        /\ BlockingFailures # {} =>
              /\ call.phase = "done"
              /\ outcome = "AuditError"
              /\ Len(au.results) = Len(log) - 1
        /\ (BlockingFailures = {} /\ call.phase = "done") =>
              /\ outcome = "results"
              /\ Len(log) = IF au.is_dev /\ snapshot.fingerprint # snapshot.version
                            THEN 0 ELSE Len(AuditsRun)

\* C22 witness: of three audits the first, not blocking, found 2 rows and
\* was collected, the second, blocking, found 1 row and ended the call with
\* an AuditError, and the third was never sent to the adapter.
C22_Witness ==
    /\ call.op = "audit"
    /\ call.phase = "done"
    /\ au.raise_exception
    /\ Len(AuditsRun) = 3
    /\ log = << <<"fetchone", <<"audit", "not_null", 0>>, 0, 2>>,
                <<"fetchone", <<"audit", "unique", 0>>, 1, 1>> >>
    /\ au.results = << <<"not_null", 2>> >>
    /\ outcome = "AuditError"


\* ------------------------------------------- promote with and without is_dev

\* The snapshots promoted into the environment: a table model built anew
\* (S1), a later fingerprint of it with a dev table (S2) and a view model
\* that reads it and has a dev name as well (S5).
PromoteIds == {"S1", "S2", "S5"}

\* promote(target_snapshots, environment, is_dev)
promote_targets ==
    \E targets \in SUBSET PromoteIds, is_dev \in BOOLEAN, f \in 0..MaxFaults :
        Begin("promote", targets, is_dev, f)

\* The caller makes the promote that has just returned normally once more,
\* with the same snapshots and environment and the other value of is_dev;
\* call.first keeps the adapter calls the first call made.
promote_again ==
    \E f \in 0..MaxFaults :
        /\ call.phase = "done"
        /\ call.op = "promote"
        /\ outcome = "ok"
        /\ call.first = {}
        /\ call' = [call EXCEPT !.phase = "fanout", !.faults = f,
                                !.is_dev = ~@,
                                !.first = {log[i] : i \in DOMAIN log}]
        /\ tasks' = [id \in SnapshotIds |->
                        IF id \in call.targets THEN PendingTask ELSE NoTask]
        /\ log' = <<>>
        /\ outcome' = ""
        /\ UNCHANGED <<ddl_concurrent_tasks, objects, evalVars, auditVars>>

\* The engine as promote finds it: under each physical name, permanent or
\* dev, what create left there or nothing.
InitPromote == InitCleanup

NextPromote ==
    \/ promote_targets
    \/ promote_again
    \/ \E id \in SnapshotIds : Dispatch(id)
    \/ \E id \in SnapshotIds : promote_create_schema(id)
    \/ \E id \in SnapshotIds : promote_table_exists(id)
    \/ \E id \in SnapshotIds : promote_create_view(id)
    \/ \E id \in SnapshotIds : promote_drop_view(id)
    \/ \E id \in SnapshotIds : adapter_raises(id)
    \/ fanout_ends
    \/ context_exit
    \/ returns

SpecPromote == InitPromote /\ [][NextPromote]_vars


\* The permanent table name of a snapshot, keyed by its version.
PermanentName(id) == <<"perm", Snap(id).name, Snap(id).version>>

\* An adapter call without its result: <<call, object, snapshot>>
CallsMade(entries) == {<<e[1], e[2], e[3]>> : e \in entries}

====
